---- MODULE Spec2Model ----
(***************************************************************************)
(* pkgcheck: the interleaved source merge (pipeline.InterleavedSources),   *)
(* the pipeline driver (pipeline.Pipeline), the check runner               *)
(* (pipeline.CheckRunner), the planner (base.plug), the fixed binding of   *)
(* checks to sources (pipeline.plug), the check for unused files           *)
(* (checks.unused_file.UnusedFileCheck) and the buffering transforms       *)
(* (feeds).                                                                *)
(*                                                                         *)
(* Specifications:                                                         *)
(*   SpecMerge  InterleavedSources alone, advanced by repeated __next__    *)
(*   SpecRunner one CheckRunner driven through start, feed*, finish        *)
(*   Spec       Pipeline.run over its merge and its runners                *)
(*   SpecPlug   base.plug: reachability and bad-sink classification        *)
(*   SpecPlan   base.plug from the call to the return or failed assertion  *)
(*   SpecPlanFair    SpecPlan with every enabled step eventually taken     *)
(*   SpecPlanTwice   base.plug called twice on the same arguments          *)
(*   SpecSourceMap   base.plug up to source_map, sources of two costs      *)
(*   SpecBind   pipeline.plug                                              *)
(*   SpecFeed   UnusedFileCheck.feed over the entries of one FILESDIR      *)
(*   SpecMergeBatches  SpecMerge over scalars, lists and tuples            *)
(*   SpecTransform     a transform of feeds driven through start, feed*,   *)
(*                     finish, in front of its child                       *)
(***************************************************************************)
EXTENDS Integers, Sequences, FiniteSets, TLC

----------------------------------------------------------------------------
(* Bounds of the model *)

\* largest number of sources handed to InterleavedSources
MaxSources == 3
\* largest number of feed calls one transform receives
MaxFed == 2
\* the versions of a package are 1..MaxVersion
MaxVersion == 2
\* largest number of items one source yields
MaxLen == 2
\* sort keys of the items are 1..MaxKey
MaxKey == 2
\* largest number of items all sources of one merge yield together
MaxTotal == 4
\* advances observed after the merge has signalled StopIteration
MaxStops == 2
\* largest number of pipes (source, runner) of one Pipeline
MaxPipes == 2
\* largest number of items the sources of one Pipeline yield together
MaxRunItems == 2
\* largest number of checks of one CheckRunner
MaxChecks == 2
\* largest number of feed calls made on a CheckRunner driven on its own
MaxFeeds == 2
\* largest number of Results a check yields in one call
MaxPre == 1
\* largest number of sinks handed to plug
MaxSinks == 1
\* largest number of sources handed to plug
MaxPlugSources == 2
\* largest number of transforms handed to plug
MaxTransforms == 2
\* largest number of sources handed to plug in a planner run
MaxPlanSources == 2
\* largest number of sinks handed to plug in a planner run
MaxPlanSinks == 2
\* largest number of sinks, transforms and sources of one planner run together
MaxPlanTotal == 4
\* priorities of the sinks are 0..MaxPriority
MaxPriority == 1
\* largest number of checks handed to pipeline.plug
MaxBindChecks == 3
\* source types are 1..MaxSourceTypes
MaxSourceTypes == 3
\* the longest name of a file of FILESDIR, without its prefix and version
MaxRest == 17
\* the most entries of FILESDIR
MaxFiles == 1
\* the most ebuilds of a package
MaxEbuilds == 2

----------------------------------------------------------------------------
(* Items flowing through the merge.  A scalar item is its own sort key; a  *)
(* batch is a Python list whose first element is the sort key.             *)

Keys == 1..MaxKey

ScalarItems == {[kind |-> "scalar", val |-> v, elems |-> <<>>] : v \in Keys}

\* one batch per key; its second element runs against the key order
ListItems == {[kind |-> "list", val |-> 0, elems |-> <<v, MaxKey + 1 - v>>] : v \in Keys}

Items == ScalarItems \cup ListItems

\* batches that are Python tuples, one per key
TupleItems == {[kind |-> "tuple", val |-> 0, elems |-> <<v, MaxKey + 1 - v>>] : v \in Keys}

\* scalars, lists and tuples
BatchItems == Items \cup TupleItems

NoItem == [kind |-> "none", val |-> 0, elems |-> <<>>]

\* all sequences over S of length at most n
SeqsUpTo(S, n) == UNION {[1..m -> S] : m \in 0..n}

\* number of items of a family of sequences
RECURSIVE TotalLen(_, _)
TotalLen(f, n) == IF n = 0 THEN 0 ELSE Len(f[n]) + TotalLen(f, n - 1)

\* the source families of at most maxn sources and at most total items
SourceFamilies(maxn, total) ==
    UNION {{f \in [1..n -> SeqsUpTo(Items, MaxLen)] : TotalLen(f, n) <= total} : n \in 0..maxn}

\* the source families whose batches are lists or tuples
BatchFamilies(maxn, total) ==
    UNION {{f \in [1..n -> SeqsUpTo(BatchItems, MaxLen)] : TotalLen(f, n) <= total} :
             n \in 0..maxn}

----------------------------------------------------------------------------
VARIABLES
    \* InterleavedSources
    input,            \* the items each source was created with, by pipe index
    iters,            \* what each source iterator has still to yield
    sources,          \* self.sources: the alive sources, as their pipe indices
    cache,            \* self._cache: (pipe_idx, item) entries in insertion order
    emitted,          \* the (item, pipe_idx) pairs returned so far
    stops,            \* number of advances that raised StopIteration
    path,             \* the branch of __next__ the last advance took
    \* CheckRunner, one per pipe index
    checks,           \* len(self.checks) of each runner
    metadata_errors,  \* self._metadata_errors of each runner
    log,              \* the lifecycle calls each runner received, in order
    reported,         \* MetadataError Results each runner yielded, per exc_info
    raised,           \* exc_info of the metadata errors the sinks raised in start and feed
    last,             \* the last runner call: its sinks' behaviour and what came out
    \* Pipeline.run
    pc,               \* where the run (or the runner's driver, or plug) stands
    k,                \* position in self.pipes of the start and finish loops;
                      \* in plug, position of the source whose closure is computed
    \* base.plug
    sinks,            \* the sinks argument
    transforms,       \* the transforms argument
    plug_sources,     \* the sources argument
    reachable,        \* reachable: feed types reached from the current source
    todo,             \* todo: feed types still to expand
    best_scope,       \* best_scope: feed type -> highest scope of a source reaching it
    good_sinks,       \* good_sinks
    bad_sinks,        \* bad_sinks
    priority,         \* sink id -> priority, once plug has read the priorities
    source_map,       \* source_map: (key, source) entries in insertion order
    unprocessed,      \* unprocessed: the worklist of the running search
    pipes,            \* pipes: the Pipes the single-pipeline search has seen
    pipes_to_run,     \* pipes_to_run: (source, transforms) pairs
    best_cost,        \* best_cost
    required_filters, \* required_filters
    required_filters_costs, \* required_filters_costs: filter type -> cost
    done,             \* done: the combinations the second search has seen
    result,           \* result: (source, tree) pairs
    returned,         \* what plug returned: bad sinks and pipelines
    first_run,        \* the outcome of an earlier call on the same arguments
    plug_checks,      \* pipeline.plug: the checks argument
    \* UnusedFileCheck.feed
    pkgs,             \* the pkgs argument: the ebuilds of one package
    filesdir,         \* the package's FILESDIR on disk
    paths,            \* what filesdir.iterdir() has still to yield
    yielded,          \* the PotentiallyUnusedFile results feed has yielded
    \* feeds: one transform and its child
    xform,            \* the transform: its class, its child and its attributes
    fed,              \* the items its feed was called with, in order
    child_log,        \* the calls its child received, in order
    tcall             \* the last call of the transform and how it ended

mergeVars == <<input, iters, sources, cache, emitted, stops, path>>

runnerVars == <<checks, metadata_errors, log, reported, raised, last>>

planVars == <<priority, source_map, unprocessed, pipes, pipes_to_run, best_cost,
              required_filters, required_filters_costs, done, result, returned,
              first_run, plug_checks>>

plugVars == <<sinks, transforms, plug_sources, reachable, todo, best_scope,
              good_sinks, bad_sinks, planVars>>

vars == <<input, iters, sources, cache, emitted, stops, path,
          checks, metadata_errors, log, reported, raised, last, pc, k,
          sinks, transforms, plug_sources, reachable, todo, best_scope,
          good_sinks, bad_sinks, priority, source_map, unprocessed, pipes,
          pipes_to_run, best_cost, required_filters, required_filters_costs,
          done, result, returned, first_run, plug_checks,
          pkgs, filesdir, paths, yielded, xform, fed, child_log, tcall>>

feedVars == <<pkgs, filesdir, paths, yielded>>

transformVars == <<xform, fed, child_log, tcall>>

\* no transform has been constructed
NoTransform ==
    /\ xform = <<>>
    /\ fed = <<>>
    /\ child_log = <<>>
    /\ tcall = <<>>

\* there is no FILESDIR
NoDir == [is_dir |-> FALSE, entries |-> {}]

\* UnusedFileCheck.feed has not been called
NoFeed ==
    /\ pkgs = <<>>
    /\ filesdir = NoDir
    /\ paths = {}
    /\ yielded = <<>>

\* best_cost is None, required_filters_costs.get(...) is None
NoCost == -1

\* plug has not returned
NoReturn == [bad |-> <<>>, pipes |-> <<>>, none |-> TRUE]

\* there was no earlier call
NoRun == [pc |-> "none"]

\* the searches and the tree construction of plug have not begun
NoPlan ==
    /\ priority = <<>>
    /\ source_map = <<>>
    /\ unprocessed = {}
    /\ pipes = {}
    /\ pipes_to_run = <<>>
    /\ best_cost = NoCost
    /\ required_filters = {}
    /\ required_filters_costs = <<>>
    /\ done = {}
    /\ result = <<>>
    /\ returned = NoReturn
    /\ first_run = NoRun
    /\ plug_checks = <<>>

\* plug has not been called
NoPlug ==
    /\ sinks = <<>>
    /\ transforms = {}
    /\ plug_sources = <<>>
    /\ reachable = {}
    /\ todo = {}
    /\ best_scope = <<>>
    /\ good_sinks = <<>>
    /\ bad_sinks = <<>>
    /\ NoPlan

----------------------------------------------------------------------------
(* Checks, the exceptions they raise and the Results of a runner *)

\* MetadataException.pkg
Pkgs == {"cat/pkg-1"}

\* MetadataException.error, as the lines of its text; the two differ as
\* errors and read the same once their lines are joined
Errors == {<<"bad", "slot">>, <<"bad: slot">>}

\* exc_info = (e.pkg, e.error)
MetaKeys == Pkgs \X Errors

NoKey == <<"", <<>>>>

\* what one check does in one call: it yields pre Results, then returns
\* or raises a MetadataException or raises any other exception
CheckOutcomes(maxpre, errors) ==
    [pre : 0..maxpre, exc : {"none", "fatal"}, pkg : {""}, error : {<<>>}]
    \cup [pre : 0..maxpre, exc : {"meta"}, pkg : Pkgs, error : errors]

\* the behaviours of a check of a runner driven on its own
Outcomes == CheckOutcomes(MaxPre, Errors)

\* the behaviours of a check in a run of a whole Pipeline
RunOutcomes == CheckOutcomes(0, {<<"bad: slot">>})

\* a Result a check yields itself
SinkResult(sink) ==
    [type |-> "Result", sink |-> sink, pkg |-> "", msg |-> "", exc_info |-> NoKey]

\* ': '.join(str(e.error).split('\n'))
RECURSIVE JoinLines(_)
JoinLines(lines) ==
    IF Len(lines) = 1 THEN lines[1]
    ELSE lines[1] \o ": " \o JoinLines(Tail(lines))

\* MetadataError(e.attr, error_str, pkg=e.pkg), raised by the sink at
\* position sink
MetadataError(sink, pkg, error) ==
    [type |-> "MetadataError", sink |-> sink, pkg |-> pkg,
     msg |-> JoinLines(error), exc_info |-> <<pkg, error>>]

NoCall ==
    [runner |-> 0, op |-> "none", item |-> NoItem, outs |-> <<>>,
     results |-> <<>>, invoked |-> 0, exc |-> "none", before |-> {}]

----------------------------------------------------------------------------
(* InterleavedSources *)

\* _key: the sort key of a cache entry (pipe_idx, item): the first element
\* of a list, and the object itself otherwise
Key(obj) ==
    LET o == obj.item
    IN IF o.kind = "list" THEN o.elems[1]
       ELSE IF o.kind = "tuple" THEN o.elems
       ELSE o.val

\* tuple.__lt__: the tuples are compared element by element
RECURSIVE TupleLess(_, _)
TupleLess(a, b) ==
    IF b = <<>> THEN FALSE
    ELSE IF a = <<>> THEN TRUE
    ELSE IF Head(a) = Head(b) THEN TupleLess(Tail(a), Tail(b))
    ELSE Head(a) < Head(b)

\* the sort key of a is less than the sort key of b, both being tuples or
\* neither
KeyLess(a, b) ==
    IF a.item.kind = "tuple" THEN TupleLess(Key(a), Key(b)) ELSE Key(a) < Key(b)

\* sorted() can compare the keys: there is one entry only, or the keys are
\* all tuples, or none is; otherwise '<' raises TypeError
Sortable(c) ==
    \A p, q \in 1..Len(c) : (c[p].item.kind = "tuple") = (c[q].item.kind = "tuple")

\* pipe_idx in self._cache
InCache(c, pipe_idx) == \E p \in 1..Len(c) : c[p].idx = pipe_idx

\* list.pop(i)
PopAt(s, i) == [p \in 1..(Len(s) - 1) |-> IF p < i THEN s[p] ELSE s[p + 1]]

\* FillCache moving on to the next position after it dropped a source
RECURSIVE FillCacheSkipping(_, _, _, _)
FillCacheSkipping(i, srcs, c, its) ==
    IF i > Len(srcs)
    THEN [sources |-> srcs, cache |-> c, iters |-> its]
    ELSE LET pipe_idx == srcs[i]
         IN IF InCache(c, pipe_idx)
            THEN FillCacheSkipping(i + 1, srcs, c, its)
            ELSE IF its[pipe_idx] # <<>>
                 THEN FillCacheSkipping(i + 1, srcs,
                                Append(c, [idx |-> pipe_idx, item |-> Head(its[pipe_idx])]),
                                [its EXCEPT ![pipe_idx] = Tail(@)])
                 ELSE FillCacheSkipping(i + 1, PopAt(srcs, i), c, its)

\* FillCache asking every source for an item before it looks into the
\* cache: an exhausted source is dropped although its item is cached
RECURSIVE FillCacheDropping(_, _, _, _)
FillCacheDropping(i, srcs, c, its) ==
    IF i > Len(srcs)
    THEN [sources |-> srcs, cache |-> c, iters |-> its]
    ELSE LET pipe_idx == srcs[i]
         IN IF its[pipe_idx] = <<>>
            THEN FillCacheDropping(i, PopAt(srcs, i), c, its)
            ELSE IF InCache(c, pipe_idx)
                 THEN FillCacheDropping(i + 1, srcs, c, its)
                 ELSE FillCacheDropping(i + 1, srcs,
                                Append(c, [idx |-> pipe_idx, item |-> Head(its[pipe_idx])]),
                                [its EXCEPT ![pipe_idx] = Tail(@)])

\* the while loop of __next__: give every alive source a cached item, drop
\* the sources that are exhausted
RECURSIVE FillCache(_, _, _, _)
FillCache(i, srcs, c, its) ==
    IF i > Len(srcs)
    THEN [sources |-> srcs, cache |-> c, iters |-> its]
    ELSE LET pipe_idx == srcs[i]
         IN IF InCache(c, pipe_idx)
            THEN FillCache(i + 1, srcs, c, its)
            ELSE IF its[pipe_idx] # <<>>
                 THEN FillCache(i + 1, srcs,
                                Append(c, [idx |-> pipe_idx, item |-> Head(its[pipe_idx])]),
                                [its EXCEPT ![pipe_idx] = Tail(@)])
                 ELSE FillCache(i, PopAt(srcs, i), c, its)

\* SortedFirst taking the first entry of the unsorted cache
SortedFirstUnsorted(c) == 1

\* sorted(self._cache.items(), key=self._key)[0]: the position of the entry
\* a stable sort puts first
SortedFirst(c) ==
    CHOOSE p \in 1..Len(c) :
        \A q \in 1..Len(c) :
            \/ KeyLess(c[p], c[q])
            \/ Key(c[p]) = Key(c[q]) /\ p <= q

Stop(srcs, c, its) ==
    [sources |-> srcs, cache |-> c, iters |-> its,
     stop |-> TRUE, item |-> NoItem, idx |-> 0, error |-> FALSE]

Return(srcs, c, its, item, pipe_idx) ==
    [sources |-> srcs, cache |-> c, iters |-> its,
     stop |-> FALSE, item |-> item, idx |-> pipe_idx, error |-> FALSE]

\* sorted() raises TypeError and the exception leaves __next__
Raise(srcs, c, its) ==
    [sources |-> srcs, cache |-> c, iters |-> its,
     stop |-> FALSE, item |-> NoItem, idx |-> 0, error |-> TRUE]

\* MergeNext leaving the emitted entry in the cache
MergeNextKeeping(srcs, c, its) ==
    IF srcs = <<>>
    THEN Stop(srcs, c, its)
    ELSE IF Len(srcs) = 1
    THEN LET pipe_idx == srcs[1]
         IN IF its[pipe_idx] # <<>>
            THEN Return(srcs, c, [its EXCEPT ![pipe_idx] = Tail(@)],
                        Head(its[pipe_idx]), pipe_idx)
            ELSE Stop(srcs, c, its)
    ELSE LET f == FillCache(1, srcs, c, its)
         IN IF f.cache = <<>>
            THEN Stop(f.sources, f.cache, f.iters)
            ELSE LET p == SortedFirst(f.cache)
                 IN Return(f.sources, f.cache, f.iters,
                           f.cache[p].item, f.cache[p].idx)

\* MergeNext testing for a single source after the while loop: the item of
\* the last source is returned past the cache
MergeNextLateSingle(srcs, c, its) ==
    IF srcs = <<>>
    THEN Stop(srcs, c, its)
    ELSE LET f == IF Len(srcs) = 1
                  THEN [sources |-> srcs, cache |-> c, iters |-> its]
                  ELSE FillCache(1, srcs, c, its)
         IN IF Len(f.sources) = 1
            THEN LET pipe_idx == f.sources[1]
                 IN IF f.iters[pipe_idx] # <<>>
                    THEN Return(f.sources, f.cache, [f.iters EXCEPT ![pipe_idx] = Tail(@)],
                                Head(f.iters[pipe_idx]), pipe_idx)
                    ELSE Stop(f.sources, f.cache, f.iters)
            ELSE IF f.cache = <<>>
            THEN Stop(f.sources, f.cache, f.iters)
            ELSE LET p == SortedFirst(f.cache)
                 IN Return(f.sources, PopAt(f.cache, p), f.iters,
                           f.cache[p].item, f.cache[p].idx)

\* InterleavedSources.__next__ as a function of the object's state
MergeNext(srcs, c, its) ==
    IF srcs = <<>>
    THEN Stop(srcs, c, its)
    ELSE IF Len(srcs) = 1
    THEN LET pipe_idx == srcs[1]
         IN IF its[pipe_idx] # <<>>
            THEN Return(srcs, c, [its EXCEPT ![pipe_idx] = Tail(@)],
                        Head(its[pipe_idx]), pipe_idx)
            ELSE Stop(srcs, c, its)
    ELSE LET f == FillCache(1, srcs, c, its)
         IN IF f.cache = <<>>
            THEN Stop(f.sources, f.cache, f.iters)
            ELSE IF ~Sortable(f.cache)
            THEN Raise(f.sources, f.cache, f.iters)
            ELSE LET p == SortedFirst(f.cache)
                 IN Return(f.sources, PopAt(f.cache, p), f.iters,
                           f.cache[p].item, f.cache[p].idx)

\* the effect of one call of __next__ with outcome r on the merge object
MergeStep(r) ==
    /\ sources' = r.sources
    /\ cache' = r.cache
    /\ iters' = r.iters
    /\ IF r.stop
       THEN /\ stops' = stops + 1
            /\ emitted' = emitted
       ELSE IF r.error
       THEN /\ stops' = stops
            /\ emitted' = emitted
       ELSE /\ stops' = stops
            /\ emitted' = Append(emitted, [item |-> r.item, idx |-> r.idx])
    /\ path' = IF r.error THEN "TypeError"
               ELSE IF Len(sources) = 0 THEN "empty"
               ELSE IF Len(sources) = 1 THEN "single" ELSE "interleave"
    /\ UNCHANGED input

\* one call of __next__ on the merge object
Advance ==
    LET r == MergeNext(sources, cache, iters)
    IN /\ r.stop => stops < MaxStops
       /\ MergeStep(r)
       /\ UNCHANGED <<runnerVars, pc, k, plugVars, feedVars, transformVars>>

\* __next__ with no source left
NextNoSources == sources = <<>> /\ Advance

\* __next__ on the single-source path
NextSingle == Len(sources) = 1 /\ Advance

\* __next__ on the interleaving path
NextInterleave == Len(sources) > 1 /\ Advance

InitMerge ==
    /\ input \in SourceFamilies(MaxSources, MaxTotal)
    /\ iters = input
    /\ sources = [i \in DOMAIN input |-> i]
    /\ cache = <<>>
    /\ emitted = <<>>
    /\ stops = 0
    /\ path = "none"
    /\ checks = <<>>
    /\ metadata_errors = <<>>
    /\ log = <<>>
    /\ reported = <<>>
    /\ raised = <<>>
    /\ last = NoCall
    /\ pc = "merge"
    /\ k = 0
    /\ NoPlug
    /\ NoFeed
    /\ NoTransform

NextMerge == NextNoSources \/ NextSingle \/ NextInterleave

SpecMerge == InitMerge /\ [][NextMerge]_vars

\* InterleavedSources over sources of scalars, lists and tuples
InitMergeBatches ==
    /\ input \in BatchFamilies(MaxSources, MaxTotal)
    /\ iters = input
    /\ sources = [i \in DOMAIN input |-> i]
    /\ cache = <<>>
    /\ emitted = <<>>
    /\ stops = 0
    /\ path = "none"
    /\ checks = <<>>
    /\ metadata_errors = <<>>
    /\ log = <<>>
    /\ reported = <<>>
    /\ raised = <<>>
    /\ last = NoCall
    /\ pc = "merge"
    /\ k = 0
    /\ NoPlug
    /\ NoFeed
    /\ NoTransform

SpecMergeBatches == InitMergeBatches /\ [][NextMerge]_vars

----------------------------------------------------------------------------
(* CheckRunner *)

\* s followed by n copies of x
AppendN(s, n, x) == s \o [p \in 1..n |-> x]

\* TryChecks with the try statement around the loop: a metadata error ends
\* the call
RECURSIVE TryChecksOuter(_, _, _, _)
TryChecksOuter(outs, i, me, res) ==
    IF i > Len(outs)
    THEN [results |-> res, metadata_errors |-> me, invoked |-> Len(outs), exc |-> "none"]
    ELSE LET o == outs[i]
             own == AppendN(res, o.pre, SinkResult(i))
             exc_info == <<o.pkg, o.error>>
         IN IF o.exc = "none"
            THEN TryChecksOuter(outs, i + 1, me, own)
            ELSE IF o.exc = "meta"
            THEN IF exc_info \notin me
                 THEN [results |-> Append(own, MetadataError(i, o.pkg, o.error)),
                       metadata_errors |-> me \cup {exc_info}, invoked |-> i, exc |-> "none"]
                 ELSE [results |-> own, metadata_errors |-> me, invoked |-> i, exc |-> "none"]
            ELSE [results |-> own, metadata_errors |-> me, invoked |-> i, exc |-> o.exc]

\* TryChecks never recording the errors it has reported
RECURSIVE TryChecksNoAdd(_, _, _, _)
TryChecksNoAdd(outs, i, me, res) ==
    IF i > Len(outs)
    THEN [results |-> res, metadata_errors |-> me, invoked |-> Len(outs), exc |-> "none"]
    ELSE LET o == outs[i]
             own == AppendN(res, o.pre, SinkResult(i))
             exc_info == <<o.pkg, o.error>>
         IN IF o.exc = "none"
            THEN TryChecksNoAdd(outs, i + 1, me, own)
            ELSE IF o.exc = "meta"
            THEN IF exc_info \notin me
                 THEN TryChecksNoAdd(outs, i + 1, me,
                                     Append(own, MetadataError(i, o.pkg, o.error)))
                 ELSE TryChecksNoAdd(outs, i + 1, me, own)
            ELSE [results |-> own, metadata_errors |-> me, invoked |-> i, exc |-> o.exc]

\* the loop of start and of feed from the check at position i on: outs is
\* what each check does in this call, me the runner's _metadata_errors, res
\* the Results yielded so far
RECURSIVE TryChecks(_, _, _, _)
TryChecks(outs, i, me, res) ==
    IF i > Len(outs)
    THEN [results |-> res, metadata_errors |-> me, invoked |-> Len(outs), exc |-> "none"]
    ELSE LET o == outs[i]
             own == AppendN(res, o.pre, SinkResult(i))
             exc_info == <<o.pkg, o.error>>
         IN IF o.exc = "none"
            THEN TryChecks(outs, i + 1, me, own)
            ELSE IF o.exc = "meta"
            THEN IF exc_info \notin me
                 THEN TryChecks(outs, i + 1, me \cup {exc_info},
                                Append(own, MetadataError(i, o.pkg, o.error)))
                 ELSE TryChecks(outs, i + 1, me, own)
            ELSE [results |-> own, metadata_errors |-> me, invoked |-> i, exc |-> o.exc]

\* CheckRunner.start
start(outs, me) == TryChecks(outs, 1, me, <<>>)

\* CheckRunner.feed
feed(outs, me) == TryChecks(outs, 1, me, <<>>)

\* the loop of finish from the check at position i on: nothing is caught
RECURSIVE FinishChecks(_, _, _, _)
FinishChecks(outs, i, me, res) ==
    IF i > Len(outs)
    THEN [results |-> res, metadata_errors |-> me, invoked |-> Len(outs), exc |-> "none"]
    ELSE LET o == outs[i]
             own == AppendN(res, o.pre, SinkResult(i))
         IN IF o.exc = "none"
            THEN FinishChecks(outs, i + 1, me, own)
            ELSE [results |-> own, metadata_errors |-> me, invoked |-> i, exc |-> o.exc]

\* CheckRunner.finish
finish(outs, me) == FinishChecks(outs, 1, me, <<>>)

\* the number of MetadataError Results for exc_info key among res
RECURSIVE CountMeta(_, _)
CountMeta(res, key) ==
    IF res = <<>> THEN 0
    ELSE (IF Head(res).type = "MetadataError" /\ Head(res).exc_info = key THEN 1 ELSE 0)
         + CountMeta(Tail(res), key)

\* the metadata errors the invoked sinks of a start or feed call raised
RaisedIn(outs, invoked) ==
    {<<outs[p].pkg, outs[p].error>> : p \in {q \in 1..invoked : outs[q].exc = "meta"}}

\* RunnerCalled with one _metadata_errors set shared by all the runners
RunnerCalledShared(i, op, item, outs, r) ==
    /\ metadata_errors' = [j \in DOMAIN metadata_errors |-> r.metadata_errors]
    /\ log' = [log EXCEPT ![i] = Append(@, [op |-> op, item |-> item])]
    /\ reported' = [reported EXCEPT ![i] =
                        [key \in MetaKeys |-> @[key] + CountMeta(r.results, key)]]
    /\ raised' = [raised EXCEPT ![i] =
                      IF op = "finish" THEN @ ELSE @ \cup RaisedIn(outs, r.invoked)]
    /\ last' = [runner |-> i, op |-> op, item |-> item, outs |-> outs,
                results |-> r.results, invoked |-> r.invoked, exc |-> r.exc,
                before |-> metadata_errors[i]]
    /\ UNCHANGED checks

\* runner i made the lifecycle call op (with item, for a feed); its checks
\* behaved as outs and the call came out as r
RunnerCalled(i, op, item, outs, r) ==
    /\ metadata_errors' = [metadata_errors EXCEPT ![i] = r.metadata_errors]
    /\ log' = [log EXCEPT ![i] = Append(@, [op |-> op, item |-> item])]
    /\ reported' = [reported EXCEPT ![i] =
                        [key \in MetaKeys |-> @[key] + CountMeta(r.results, key)]]
    /\ raised' = [raised EXCEPT ![i] =
                      IF op = "finish" THEN @ ELSE @ \cup RaisedIn(outs, r.invoked)]
    /\ last' = [runner |-> i, op |-> op, item |-> item, outs |-> outs,
                results |-> r.results, invoked |-> r.invoked, exc |-> r.exc,
                before |-> metadata_errors[i]]
    /\ UNCHANGED checks

\* a CheckRunner on its own: its driver calls start
RunnerStart ==
    /\ pc = "idle"
    /\ \E outs \in [1..checks[1] -> Outcomes] :
          LET r == start(outs, metadata_errors[1])
          IN /\ RunnerCalled(1, "start", NoItem, outs, r)
             /\ pc' = IF r.exc = "none" THEN "feeding" ELSE "aborted"
    /\ UNCHANGED <<mergeVars, k, plugVars, feedVars, transformVars>>

\* its driver calls feed(item)
RunnerFeed ==
    /\ pc = "feeding"
    /\ k < MaxFeeds
    /\ \E item \in ScalarItems, outs \in [1..checks[1] -> Outcomes] :
          LET r == feed(outs, metadata_errors[1])
          IN /\ RunnerCalled(1, "feed", item, outs, r)
             /\ pc' = IF r.exc = "none" THEN "feeding" ELSE "aborted"
    /\ k' = k + 1
    /\ UNCHANGED <<mergeVars, plugVars, feedVars, transformVars>>

\* its driver calls finish
RunnerFinish ==
    /\ pc = "feeding"
    /\ \E outs \in [1..checks[1] -> Outcomes] :
          LET r == finish(outs, metadata_errors[1])
          IN /\ RunnerCalled(1, "finish", NoItem, outs, r)
             /\ pc' = IF r.exc = "none" THEN "finished" ELSE "aborted"
    /\ UNCHANGED <<mergeVars, k, plugVars, feedVars, transformVars>>

\* the runners of n pipes right after construction
InitRunners(n) ==
    /\ checks \in [1..n -> 1..MaxChecks]
    /\ metadata_errors = [i \in 1..n |-> {}]
    /\ log = [i \in 1..n |-> <<>>]
    /\ reported = [i \in 1..n |-> [key \in MetaKeys |-> 0]]
    /\ raised = [i \in 1..n |-> {}]
    /\ last = NoCall

InitRunner ==
    /\ input = <<>>
    /\ iters = <<>>
    /\ sources = <<>>
    /\ cache = <<>>
    /\ emitted = <<>>
    /\ stops = 0
    /\ path = "none"
    /\ InitRunners(1)
    /\ pc = "idle"
    /\ k = 0
    /\ NoPlug
    /\ NoFeed
    /\ NoTransform

NextRunner == RunnerStart \/ RunnerFeed \/ RunnerFinish

SpecRunner == InitRunner /\ [][NextRunner]_vars

----------------------------------------------------------------------------
(* Pipeline *)

\* the merge is asked for its next pair
AtMerge == (pc = "start" /\ k > Len(checks)) \/ pc = "feed"

\* run: pipe.start() of the pipe at position k
RunStart ==
    /\ pc = "start"
    /\ k <= Len(checks)
    /\ \E outs \in [1..checks[k] -> RunOutcomes] :
          LET r == start(outs, metadata_errors[k])
          IN /\ RunnerCalled(k, "start", NoItem, outs, r)
             /\ pc' = IF r.exc = "none" THEN "start" ELSE "aborted"
    /\ k' = k + 1
    /\ UNCHANGED <<mergeVars, plugVars, feedVars, transformVars>>

\* RunFeed feeding every item to the first pipe
RunFeedFirstPipe ==
    /\ AtMerge
    /\ LET m == MergeNext(sources, cache, iters)
       IN /\ ~m.stop
          /\ MergeStep(m)
          /\ \E outs \in [1..checks[1] -> RunOutcomes] :
                LET r == feed(outs, metadata_errors[1])
                IN /\ RunnerCalled(1, "feed", m.item, outs, r)
                   /\ pc' = IF r.exc = "none" THEN "feed" ELSE "aborted"
    /\ UNCHANGED <<k, plugVars, feedVars, transformVars>>

\* run: the merge yields (item, i) and self.pipes[i].feed(item) is called
RunFeed ==
    /\ AtMerge
    /\ LET m == MergeNext(sources, cache, iters)
       IN /\ ~m.stop
          /\ MergeStep(m)
          /\ \E outs \in [1..checks[m.idx] -> RunOutcomes] :
                LET r == feed(outs, metadata_errors[m.idx])
                IN /\ RunnerCalled(m.idx, "feed", m.item, outs, r)
                   /\ pc' = IF r.exc = "none" THEN "feed" ELSE "aborted"
    /\ UNCHANGED <<k, plugVars, feedVars, transformVars>>

\* run: the merge is exhausted, the feed loop ends
RunExhausted ==
    /\ AtMerge
    /\ LET m == MergeNext(sources, cache, iters)
       IN /\ m.stop
          /\ MergeStep(m)
    /\ pc' = "finish"
    /\ k' = 1
    /\ UNCHANGED <<runnerVars, plugVars, feedVars, transformVars>>

\* RunFinish leaving the finish loop after the first pipe
RunFinishFirstOnly ==
    /\ pc = "finish"
    /\ k <= Len(checks)
    /\ \E outs \in [1..checks[k] -> RunOutcomes] :
          LET r == finish(outs, metadata_errors[k])
          IN /\ RunnerCalled(k, "finish", NoItem, outs, r)
             /\ pc' = IF r.exc = "none" THEN "finish" ELSE "aborted"
    /\ k' = Len(checks) + 1
    /\ UNCHANGED <<mergeVars, plugVars, feedVars, transformVars>>

\* run: pipe.finish() of the pipe at position k
RunFinish ==
    /\ pc = "finish"
    /\ k <= Len(checks)
    /\ \E outs \in [1..checks[k] -> RunOutcomes] :
          LET r == finish(outs, metadata_errors[k])
          IN /\ RunnerCalled(k, "finish", NoItem, outs, r)
             /\ pc' = IF r.exc = "none" THEN "finish" ELSE "aborted"
    /\ k' = k + 1
    /\ UNCHANGED <<mergeVars, plugVars, feedVars, transformVars>>

\* run: the generator returns
RunDone ==
    /\ pc = "finish"
    /\ k > Len(checks)
    /\ pc' = "done"
    /\ UNCHANGED <<mergeVars, runnerVars, k, plugVars, feedVars, transformVars>>

\* Pipeline.__init__
Init ==
    /\ input \in SourceFamilies(MaxPipes, MaxRunItems)
    /\ iters = input
    /\ sources = [i \in DOMAIN input |-> i]
    /\ cache = <<>>
    /\ emitted = <<>>
    /\ stops = 0
    /\ path = "none"
    /\ InitRunners(Len(input))
    /\ pc = "start"
    /\ k = 1
    /\ NoPlug
    /\ NoFeed
    /\ NoTransform

Next == RunStart \/ RunFeed \/ RunExhausted \/ RunFinish \/ RunDone

Spec == Init /\ [][Next]_vars

----------------------------------------------------------------------------
(* base.plug: feed types, scopes, sinks, sources and transforms *)

repository_feed == "repo"
category_feed == "cat"
package_feed == "cat/pkg"
versioned_feed == "cat/pkg-ver"
ebuild_feed == "cat/pkg-ver+text"

FeedTypes == {repository_feed, category_feed, package_feed, versioned_feed, ebuild_feed}

no_filter == "none"
mask_filter == "mask"

version_scope == 0
package_scope == 1
category_scope == 2
repository_scope == 3

Scopes == version_scope..repository_scope

\* best_scope.get(feed_type) is None
NoScope == -1

\* the transform classes of feeds.py
VersionToEbuild ==
    [name |-> "VersionToEbuild", source |-> versioned_feed, dest |-> ebuild_feed,
     scope |-> version_scope, cost |-> 20]

EbuildToVersion ==
    [name |-> "EbuildToVersion", source |-> ebuild_feed, dest |-> versioned_feed,
     scope |-> version_scope, cost |-> 5]

VersionToPackage ==
    [name |-> "VersionToPackage", source |-> versioned_feed, dest |-> package_feed,
     scope |-> package_scope, cost |-> 10]

VersionToCategory ==
    [name |-> "VersionToCategory", source |-> versioned_feed, dest |-> category_feed,
     scope |-> category_scope, cost |-> 10]

PackageToRepo ==
    [name |-> "PackageToRepo", source |-> package_feed, dest |-> repository_feed,
     scope |-> repository_scope, cost |-> 10]

CategoryToRepo ==
    [name |-> "CategoryToRepo", source |-> category_feed, dest |-> repository_feed,
     scope |-> repository_scope, cost |-> 10]

PackageToCategory ==
    [name |-> "PackageToCategory", source |-> package_feed, dest |-> category_feed,
     scope |-> category_scope, cost |-> 10]

TransformPool ==
    {VersionToEbuild, EbuildToVersion, VersionToPackage, VersionToCategory,
     PackageToRepo, CategoryToRepo, PackageToCategory}

\* GenericSource: versioned feed, no filter, cost 10, at any scope
SourceKinds ==
    [feed_type : {versioned_feed}, scope : Scopes, filter_type : {no_filter}, cost : {10}]

\* Template: a check of any feed type and scope, priority 0
SinkKinds ==
    [feed_type : FeedTypes, scope : Scopes, filter_type : {no_filter, mask_filter},
     priority : {0}]

----------------------------------------------------------------------------
(* base.plug: reachability and the classification of the sinks *)

\* feed_to_transforms.get(feed_type, ())
feed_to_transforms(feed_type) == {t \in transforms : t.source = feed_type}

\* plug is called; the closure of the first source begins
ReachSource ==
    /\ pc = "source"
    /\ k <= Len(plug_sources)
    /\ reachable' = {}
    /\ todo' = {plug_sources[k].feed_type}
    /\ pc' = "todo"
    /\ UNCHANGED <<k, sinks, transforms, plug_sources, best_scope, good_sinks, bad_sinks>>
    /\ UNCHANGED <<mergeVars, runnerVars, planVars, feedVars, transformVars>>

\* ReachPop following a transform whatever its minimum scope
ReachPopAnyScope ==
    /\ pc = "todo"
    /\ todo # {}
    /\ \E feed_type \in todo :
          /\ reachable' = reachable \cup {feed_type}
          /\ todo' = (todo \ {feed_type}) \cup
                     {t.dest : t \in {u \in feed_to_transforms(feed_type) :
                                        u.dest \notin reachable \cup {feed_type}}}
    /\ UNCHANGED <<pc, k, sinks, transforms, plug_sources, best_scope, good_sinks, bad_sinks>>
    /\ UNCHANGED <<mergeVars, runnerVars, planVars, feedVars, transformVars>>

\* one round of the while loop: a feed type is popped from todo and the
\* destinations of the transforms allowed at the source's scope are added
ReachPop ==
    /\ pc = "todo"
    /\ todo # {}
    /\ \E feed_type \in todo :
          /\ reachable' = reachable \cup {feed_type}
          /\ todo' = (todo \ {feed_type}) \cup
                     {t.dest : t \in {u \in feed_to_transforms(feed_type) :
                                        /\ u.scope <= plug_sources[k].scope
                                        /\ u.dest \notin reachable \cup {feed_type}}}
    /\ UNCHANGED <<pc, k, sinks, transforms, plug_sources, best_scope, good_sinks, bad_sinks>>
    /\ UNCHANGED <<mergeVars, runnerVars, planVars, feedVars, transformVars>>

\* todo is empty: best_scope is raised for every reached feed type
ReachRecord ==
    /\ pc = "todo"
    /\ todo = {}
    /\ best_scope' = [feed_type \in FeedTypes |->
                        IF /\ feed_type \in reachable
                           /\ (best_scope[feed_type] = NoScope
                               \/ best_scope[feed_type] < plug_sources[k].scope)
                        THEN plug_sources[k].scope
                        ELSE best_scope[feed_type]]
    /\ k' = k + 1
    /\ pc' = "source"
    /\ UNCHANGED <<sinks, transforms, plug_sources, reachable, todo, good_sinks, bad_sinks>>
    /\ UNCHANGED <<mergeVars, runnerVars, planVars, feedVars, transformVars>>

\* the sinks of snks that plug keeps (bad = FALSE) or throws out (bad = TRUE)
RECURSIVE Classified(_, _, _)
Classified(snks, best, bad) ==
    IF snks = <<>> THEN <<>>
    ELSE LET sink == Head(snks)
             scope == best[sink.feed_type]
             isBad == scope = NoScope \/ sink.scope > scope
         IN (IF isBad = bad THEN <<sink>> ELSE <<>>) \o Classified(Tail(snks), best, bad)

\* every source is done: the sinks, one of SinkSeqs, are read and split into
\* good and bad; plug returns when no sink is good
ThrowOut(SinkSeqs) ==
    /\ pc = "source"
    /\ k > Len(plug_sources)
    /\ \E snks \in SinkSeqs :
          /\ sinks' = snks
          /\ good_sinks' = Classified(snks, best_scope, FALSE)
          /\ bad_sinks' = Classified(snks, best_scope, TRUE)
          /\ IF Classified(snks, best_scope, FALSE) = <<>>
             THEN /\ pc' = "returned"
                  /\ returned' = [bad |-> Classified(snks, best_scope, TRUE),
                                  pipes |-> <<>>, none |-> FALSE]
             ELSE /\ pc' = "classified"
                  /\ UNCHANGED returned
    /\ UNCHANGED <<k, transforms, plug_sources, reachable, todo, best_scope>>
    /\ UNCHANGED <<priority, source_map, unprocessed, pipes, pipes_to_run, best_cost,
                   required_filters, required_filters_costs, done, result, first_run, plug_checks>>
    /\ UNCHANGED <<mergeVars, runnerVars, feedVars, transformVars>>

ThrowOutUnreachable == ThrowOut(SeqsUpTo(SinkKinds, MaxSinks))

\* plug(sinks, transforms, sources) is called
InitPlug ==
    /\ input = <<>>
    /\ iters = <<>>
    /\ sources = <<>>
    /\ cache = <<>>
    /\ emitted = <<>>
    /\ stops = 0
    /\ path = "none"
    /\ InitRunners(0)
    /\ pc = "source"
    /\ k = 1
    /\ sinks = <<>>
    /\ transforms \in {T \in SUBSET TransformPool : Cardinality(T) <= MaxTransforms}
    /\ plug_sources \in SeqsUpTo(SourceKinds, MaxPlugSources)
    /\ reachable = {}
    /\ todo = {}
    /\ best_scope = [feed_type \in FeedTypes |-> NoScope]
    /\ good_sinks = <<>>
    /\ bad_sinks = <<>>
    /\ NoPlan
    /\ NoFeed
    /\ NoTransform

NextPlug == ReachSource \/ ReachPop \/ ReachRecord \/ ThrowOutUnreachable

\* plug up to the point where the sinks are classified
SpecPlug == InitPlug /\ [][NextPlug]_vars

----------------------------------------------------------------------------
(* base.plug: the sources kept for the searches *)

FilterTypes == {no_filter, mask_filter}

\* sources of the planner runs: GenericSource (versioned feed, cost 10) at
\* version or package scope and a cheaper source of packages at package scope,
\* each with either filter
PlanSourceKinds ==
    [feed_type : {versioned_feed}, scope : {version_scope, package_scope},
     filter_type : FilterTypes, cost : {10}]
    \cup [feed_type : {package_feed}, scope : {package_scope},
          filter_type : FilterTypes, cost : {5}]

\* transforms of the planner runs: the version/ebuild cycle and VersionToPackage
PlanTransformPool == {VersionToEbuild, EbuildToVersion, VersionToPackage}

\* a Transform from versions to packages of cost 2 with minimum scope package
CheapVersionToPackage ==
    [name |-> "CheapVersionToPackage", source |-> versioned_feed, dest |-> package_feed,
     scope |-> package_scope, cost |-> 2]

\* a source of versions without filter of cost 5, at package scope
CheapVersionSource ==
    [feed_type |-> versioned_feed, scope |-> package_scope, filter_type |-> no_filter,
     cost |-> 5]

\* sinks of the planner runs: checks of versions at version or package scope
\* and checks of packages at package scope, each with either filter
PlanSinkKinds ==
    [feed_type : {versioned_feed}, scope : {version_scope, package_scope},
     filter_type : FilterTypes]
    \cup [feed_type : {package_feed}, scope : {package_scope}, filter_type : FilterTypes]

\* the sinks arguments; id is the position of the sink in the argument
PlanSinkSeqs ==
    UNION {{[p \in 1..n |-> [id |-> p, feed_type |-> f[p].feed_type, scope |-> f[p].scope,
                             filter_type |-> f[p].filter_type]] :
              f \in [1..n -> PlanSinkKinds]} : n \in 0..MaxPlanSinks}

Priorities == 0..MaxPriority

\* the sinks argument of a planner run: drawn when first read, and the same
\* sinks when plug is called again
PlanThrowOut ==
    ThrowOut(IF first_run = NoRun
             THEN {snks \in PlanSinkSeqs :
                     Len(snks) + Cardinality(transforms) + Len(plug_sources) <= MaxPlanTotal}
             ELSE {sinks})

RECURSIVE Lowest(_)
Lowest(S) ==
    LET x == CHOOSE y \in S : TRUE
    IN IF S = {x} THEN x
       ELSE LET m == Lowest(S \ {x}) IN IF x < m THEN x ELSE m

\* lowest_required_scope
lowest_required_scope == Lowest({good_sinks[p].scope : p \in DOMAIN good_sinks})

\* sink_feed_types
sink_feed_types == {good_sinks[p].feed_type : p \in DOMAIN good_sinks}

\* sink_filter_types
sink_filter_types == {good_sinks[p].filter_type : p \in DOMAIN good_sinks}

\* source_map.get(key): the position of key's entry, 0 for None
MapGet(map, key) ==
    IF \E p \in DOMAIN map : map[p].key = key
    THEN CHOOSE p \in DOMAIN map : map[p].key = key
    ELSE 0

\* source_map[key] = source: an existing key keeps its position
MapSet(map, key, source) ==
    IF MapGet(map, key) = 0
    THEN Append(map, [key |-> key, value |-> source])
    ELSE [map EXCEPT ![MapGet(map, key)] = [key |-> key, value |-> source]]

\* the loop filling source_map: the source is looked up under (scope, feed
\* type) and stored under (scope, feed type, filter type)
RECURSIVE SourceMapFrom(_, _)
SourceMapFrom(srcs, map) ==
    IF srcs = <<>> THEN map
    ELSE LET source == Head(srcs)
             current == MapGet(map, <<source.scope, source.feed_type>>)
         IN SourceMapFrom(Tail(srcs),
                IF current = 0 \/ map[current].value.cost > source.cost
                THEN MapSet(map, <<source.scope, source.feed_type, source.filter_type>>, source)
                ELSE map)

\* PrunedStrictly keeps the sources above the lowest required scope only
PrunedStrictly == SelectSeq(plug_sources, LAMBDA s : s.scope > lowest_required_scope)

\* the sources at or above the lowest required scope
Pruned == SelectSeq(plug_sources, LAMBDA s : s.scope >= lowest_required_scope)

\* a Pipe of the single-pipeline search
Pipe(visited, source, trans, cost) ==
    [visited |-> visited, source |-> source, trans |-> trans, cost |-> cost]

\* sources below the lowest required scope are dropped, the cheapest source
\* of each kind is looked for, and the single-pipeline search is set up
PruneSources ==
    /\ pc = "classified"
    /\ IF Pruned = <<>>
       THEN /\ returned' = [bad |-> bad_sinks \o good_sinks, pipes |-> <<>>, none |-> FALSE]
            /\ pc' = "returned"
            /\ UNCHANGED <<source_map, unprocessed, pipes, pipes_to_run, best_cost,
                           required_filters, required_filters_costs>>
       ELSE /\ source_map' = SourceMapFrom(Pruned, <<>>)
            /\ unprocessed' =
                  {Pipe({source_map'[p].value.feed_type}, source_map'[p].value, {},
                        source_map'[p].value.cost) : p \in DOMAIN source_map'}
            /\ pipes' = {}
            /\ pipes_to_run' = <<>>
            /\ best_cost' = NoCost
            /\ required_filters' = sink_filter_types
            /\ required_filters_costs' = [f \in FilterTypes |-> NoCost]
            /\ pc' = "search"
            /\ UNCHANGED returned
    /\ UNCHANGED <<k, sinks, transforms, plug_sources, reachable, todo, best_scope,
                   good_sinks, bad_sinks>>
    /\ UNCHANGED <<priority, done, result, first_run, plug_checks>>
    /\ UNCHANGED <<mergeVars, runnerVars, feedVars, transformVars>>

----------------------------------------------------------------------------
(* base.plug: the single-pipeline search *)

\* PoppedKeeping leaves the popped Pipe in the worklist
PoppedKeeping(worklist, pipe) == worklist

\* unprocessed.pop(): the worklist once pipe is popped from it
Popped(worklist, pipe) == worklist \ {pipe}

\* Grown taking a transform although its dest type is visited already
GrownRevisiting(pipe) ==
    {Pipe(pipe.visited \cup {transform.dest}, pipe.source,
          pipe.trans \cup {transform}, pipe.cost + transform.cost) :
       transform \in {t \in transforms : /\ pipe.source.scope >= t.scope
                                         /\ t.source \in pipe.visited
                                         /\ t \notin pipe.trans}}

\* the Pipes that extend pipe by one transform
Grown(pipe) ==
    {Pipe(pipe.visited \cup {transform.dest}, pipe.source,
          pipe.trans \cup {transform}, pipe.cost + transform.cost) :
       transform \in {t \in transforms : /\ pipe.source.scope >= t.scope
                                         /\ t.source \in pipe.visited
                                         /\ t.dest \notin pipe.visited}}

\* one round of the first while loop: a Pipe is popped; a complete Pipe of a
\* filter type still required is recorded, any other Pipe is extended unless
\* every filter type is served and it costs no less than the recorded one
SearchPop ==
    /\ pc = "search"
    /\ unprocessed # {}
    /\ \E pipe \in unprocessed :
          LET rest == Popped(unprocessed, pipe)
              filter_type == pipe.source.filter_type
              cost == required_filters_costs[filter_type]
          IN IF pipe \in pipes
             THEN /\ unprocessed' = rest
                  /\ UNCHANGED <<pipes, pipes_to_run, best_cost, required_filters,
                                 required_filters_costs>>
             ELSE /\ pipes' = pipes \cup {pipe}
                  /\ IF sink_feed_types \subseteq pipe.visited /\ filter_type \in required_filters
                     THEN /\ required_filters' = required_filters \ {filter_type}
                          /\ IF cost = NoCost \/ pipe.cost < cost
                             THEN /\ pipes_to_run' =
                                        Append(pipes_to_run,
                                               [source |-> pipe.source, trans |-> pipe.trans])
                                  /\ required_filters_costs' =
                                        [required_filters_costs EXCEPT ![filter_type] = pipe.cost]
                                  /\ best_cost' = pipe.cost
                             ELSE /\ best_cost' = cost
                                  /\ UNCHANGED <<pipes_to_run, required_filters_costs>>
                          /\ unprocessed' = rest
                     ELSE /\ best_cost' = cost
                          /\ unprocessed' =
                                IF required_filters = {} /\ cost # NoCost /\ cost <= pipe.cost
                                THEN rest
                                ELSE rest \cup Grown(pipe)
                          /\ UNCHANGED <<pipes_to_run, required_filters,
                                         required_filters_costs>>
    /\ UNCHANGED <<pc, k, sinks, transforms, plug_sources, reachable, todo, best_scope,
                   good_sinks, bad_sinks>>
    /\ UNCHANGED <<priority, source_map, done, result, returned, first_run, plug_checks>>
    /\ UNCHANGED <<mergeVars, runnerVars, feedVars, transformVars>>

\* a combination of the second search
Combination(visited, srcs, seq, cost) ==
    [visited |-> visited, sources |-> srcs, seq |-> seq, cost |-> cost]

\* SearchDone setting up the combination search whether or not a pipe was found
SearchDoneCombining ==
    /\ pc = "search"
    /\ unprocessed = {}
    /\ unprocessed' =
          {Combination(pipe.visited, {pipe.source},
                       <<[source |-> pipe.source, trans |-> pipe.trans]>>,
                       pipe.cost) : pipe \in pipes}
    /\ done' = {}
    /\ pc' = "combine"
    /\ UNCHANGED <<k, sinks, transforms, plug_sources, reachable, todo, best_scope,
                   good_sinks, bad_sinks>>
    /\ UNCHANGED <<priority, source_map, pipes, pipes_to_run, best_cost, required_filters,
                   required_filters_costs, result, returned, first_run, plug_checks>>
    /\ UNCHANGED <<mergeVars, runnerVars, feedVars, transformVars>>

\* the first worklist is empty: with no pipe to run the combination search
\* is set up from the Pipes seen
SearchDone ==
    /\ pc = "search"
    /\ unprocessed = {}
    /\ IF pipes_to_run = <<>>
       THEN /\ unprocessed' =
                  {Combination(pipe.visited, {pipe.source},
                               <<[source |-> pipe.source, trans |-> pipe.trans]>>,
                               pipe.cost) : pipe \in pipes}
            /\ done' = {}
            /\ pc' = "combine"
       ELSE /\ pc' = "sort"
            /\ UNCHANGED <<unprocessed, done>>
    /\ UNCHANGED <<k, sinks, transforms, plug_sources, reachable, todo, best_scope,
                   good_sinks, bad_sinks>>
    /\ UNCHANGED <<priority, source_map, pipes, pipes_to_run, best_cost, required_filters,
                   required_filters_costs, result, returned, first_run, plug_checks>>
    /\ UNCHANGED <<mergeVars, runnerVars, feedVars, transformVars>>

----------------------------------------------------------------------------
(* base.plug: the combination search *)

\* CombinedRepeating adds a Pipe whether or not its source is in pipe
CombinedRepeating(pipe) ==
    {Combination(pipe.visited \cup new.visited, pipe.sources \cup {new.source},
                 Append(pipe.seq, [source |-> new.source, trans |-> new.trans]),
                 pipe.cost + new.cost) :
       new \in pipes}

\* CombinedNever adds nothing to a combination
CombinedNever(pipe) == {}

\* the combinations that add one Pipe of a source not yet in pipe
Combined(pipe) ==
    {Combination(pipe.visited \cup new.visited, pipe.sources \cup {new.source},
                 Append(pipe.seq, [source |-> new.source, trans |-> new.trans]),
                 pipe.cost + new.cost) :
       new \in {p \in pipes : p.source \notin pipe.sources}}

\* CheaperFirst keeps the first cost found
CheaperFirst(cost, best) == best = NoCost

\* best_cost is None or cost < best_cost
Cheaper(cost, best) == best = NoCost \/ cost < best

\* one round of the second while loop: a combination is popped, recorded
\* when it reaches every sink feed type more cheaply than the best so far,
\* and extended unless it costs no less than the best
CombinePop ==
    /\ pc = "combine"
    /\ unprocessed # {}
    /\ \E pipe \in unprocessed :
          LET rest == Popped(unprocessed, pipe)
              better == /\ sink_feed_types \subseteq pipe.visited
                        /\ Cheaper(pipe.cost, best_cost)
              best == IF better THEN pipe.cost ELSE best_cost
          IN IF pipe \in done
             THEN /\ unprocessed' = rest
                  /\ UNCHANGED <<done, pipes_to_run, best_cost>>
             ELSE /\ done' = done \cup {pipe}
                  /\ pipes_to_run' = IF better THEN pipe.seq ELSE pipes_to_run
                  /\ best_cost' = best
                  /\ unprocessed' = IF best # NoCost /\ best <= pipe.cost
                                    THEN rest
                                    ELSE rest \cup Combined(pipe)
    /\ UNCHANGED <<pc, k, sinks, transforms, plug_sources, reachable, todo, best_scope,
                   good_sinks, bad_sinks>>
    /\ UNCHANGED <<priority, source_map, pipes, required_filters, required_filters_costs,
                   result, returned, first_run, plug_checks>>
    /\ UNCHANGED <<mergeVars, runnerVars, feedVars, transformVars>>

\* the second worklist is empty
CombineDone ==
    /\ pc = "combine"
    /\ unprocessed = {}
    /\ pc' = "sort"
    /\ UNCHANGED <<k, sinks, transforms, plug_sources, reachable, todo, best_scope,
                   good_sinks, bad_sinks>>
    /\ UNCHANGED planVars
    /\ UNCHANGED <<mergeVars, runnerVars, feedVars, transformVars>>

----------------------------------------------------------------------------
(* base.plug: the trees *)

\* good_sinks.sort(key=attrgetter('priority')): a stable sort, lowest first
RECURSIVE SortedByPriority(_, _, _)
SortedByPriority(snks, pr, p) ==
    IF p > MaxPriority THEN <<>>
    ELSE SelectSeq(snks, LAMBDA s : pr[s.id] = p) \o SortedByPriority(snks, pr, p + 1)

\* the assertion that a solution was found, and the sort of the good sinks,
\* whose priorities are read here for the first time
SortSinks ==
    /\ pc = "sort"
    /\ IF pipes_to_run = <<>>
       THEN /\ pc' = "did not find a solution?"
            /\ UNCHANGED <<good_sinks, priority, k>>
       ELSE /\ \E pr \in (IF priority = <<>>
                          THEN [{good_sinks[p].id : p \in DOMAIN good_sinks} -> Priorities]
                          ELSE {priority}) :
                  /\ priority' = pr
                  /\ good_sinks' = SortedByPriority(good_sinks, pr, 0)
            /\ k' = 1
            /\ pc' = "build"
    /\ UNCHANGED <<sinks, transforms, plug_sources, reachable, todo, best_scope, bad_sinks>>
    /\ UNCHANGED <<source_map, unprocessed, pipes, pipes_to_run, best_cost,
                   required_filters, required_filters_costs, done, result, returned,
                   first_run, plug_checks>>
    /\ UNCHANGED <<mergeVars, runnerVars, feedVars, transformVars>>

\* build_transform returned None
NoTree == [checks |-> <<>>]

\* CheckRunner(children)
CheckRunner(children) == [checks |-> children]

\* IsTreeAlways takes None for a tree as well
IsTreeAlways(t) == TRUE

\* if t: / if transform: what build_transform returned is not None
IsTree(t) == t # NoTree

\* transform(t): the transform instance feeding the runner t
TransformChild(transform, t) == [kind |-> "transform", transform |-> transform, child |-> t]

\* a sink as a child of a runner
SinkChild(sink) == [kind |-> "sink", sink |-> sink]

RECURSIVE Reversed(_)
Reversed(s) == IF s = <<>> THEN <<>> ELSE Append(Reversed(Tail(s)), Head(s))

\* the orders in which a set of transforms can be iterated
Orderings(S) ==
    {o \in [1..Cardinality(S) -> S] : \A p, q \in DOMAIN o : p # q => o[p] # o[q]}

RECURSIVE BuildChildren(_, _, _, _, _, _)
RECURSIVE build_transform(_, _, _, _, _)

\* the first loop of build_transform from the i-th transform on: acc holds
\* the children so far and the sinks not yet attached
BuildChildren(scope, feed_type, filter_type, trans, i, acc) ==
    IF i > Len(trans) THEN acc
    ELSE IF trans[i].source = feed_type /\ trans[i].scope <= scope
         THEN LET t == build_transform(scope, trans[i].dest, filter_type, trans, acc.pool)
              IN BuildChildren(scope, feed_type, filter_type, trans, i + 1,
                    [children |-> IF IsTree(t.tree)
                                  THEN Append(acc.children, TransformChild(trans[i], t.tree))
                                  ELSE acc.children,
                     pool |-> t.pool])
         ELSE BuildChildren(scope, feed_type, filter_type, trans, i + 1, acc)

\* BuildSinksAscending scans the pool forwards
BuildSinksAscending(scope, feed_type, filter_type, pool) ==
    SelectSeq(pool, LAMBDA s : /\ s.feed_type = feed_type
                               /\ s.filter_type = filter_type
                               /\ s.scope <= scope)

\* BuildSinksAnyFilter attaches sinks whatever their filter type
BuildSinksAnyFilter(scope, feed_type, filter_type, pool) ==
    Reversed(SelectSeq(pool, LAMBDA s : s.feed_type = feed_type /\ s.scope <= scope))

\* the second loop of build_transform: the sinks of pool that this node
\* takes, scanned from the end of the pool
BuildSinks(scope, feed_type, filter_type, pool) ==
    Reversed(SelectSeq(pool, LAMBDA s : /\ s.feed_type = feed_type
                                        /\ s.filter_type = filter_type
                                        /\ s.scope <= scope))

\* build_transform over the sinks of pool, iterating transforms in the order
\* trans: the tree (NoTree for None) and the sinks left in the pool
build_transform(scope, feed_type, filter_type, trans, pool) ==
    LET acc == BuildChildren(scope, feed_type, filter_type, trans, 1,
                             [children |-> <<>>, pool |-> pool])
        taken == BuildSinks(scope, feed_type, filter_type, acc.pool)
        children == acc.children \o [p \in DOMAIN taken |-> SinkChild(taken[p])]
    IN [tree |-> IF children # <<>> THEN CheckRunner(children) ELSE NoTree,
        pool |-> SelectSeq(acc.pool, LAMBDA s : \A p \in DOMAIN taken : taken[p] # s)]

\* one round of the last for loop: the tree of the k-th pipe to run is built
\* and kept when it is not None
BuildPipe ==
    /\ pc = "build"
    /\ k <= Len(pipes_to_run)
    /\ \E trans \in Orderings(pipes_to_run[k].trans) :
          LET source == pipes_to_run[k].source
              built == build_transform(source.scope, source.feed_type, source.filter_type,
                                       trans, good_sinks)
          IN /\ good_sinks' = built.pool
             /\ result' = IF IsTree(built.tree)
                          THEN Append(result, [source |-> source, tree |-> built.tree])
                          ELSE result
    /\ k' = k + 1
    /\ UNCHANGED <<pc, sinks, transforms, plug_sources, reachable, todo, best_scope, bad_sinks>>
    /\ UNCHANGED <<priority, source_map, unprocessed, pipes, pipes_to_run, best_cost,
                   required_filters, required_filters_costs, done, returned, first_run, plug_checks>>
    /\ UNCHANGED <<mergeVars, runnerVars, feedVars, transformVars>>

\* PlugReturnUnchecked returns whether or not a sink is left
PlugReturnUnchecked ==
    /\ pc = "build"
    /\ k > Len(pipes_to_run)
    /\ pc' = "returned"
    /\ returned' = [bad |-> bad_sinks, pipes |-> result, none |-> FALSE]
    /\ UNCHANGED <<k, sinks, transforms, plug_sources, reachable, todo, best_scope,
                   good_sinks, bad_sinks>>
    /\ UNCHANGED <<priority, source_map, unprocessed, pipes, pipes_to_run, best_cost,
                   required_filters, required_filters_costs, done, result, first_run, plug_checks>>
    /\ UNCHANGED <<mergeVars, runnerVars, feedVars, transformVars>>

\* every pipe is built: the assertion that no sink is left, and the return
PlugReturn ==
    /\ pc = "build"
    /\ k > Len(pipes_to_run)
    /\ IF good_sinks # <<>>
       THEN /\ pc' = "sinks left"
            /\ UNCHANGED returned
       ELSE /\ pc' = "returned"
            /\ returned' = [bad |-> bad_sinks, pipes |-> result, none |-> FALSE]
    /\ UNCHANGED <<k, sinks, transforms, plug_sources, reachable, todo, best_scope,
                   good_sinks, bad_sinks>>
    /\ UNCHANGED <<priority, source_map, unprocessed, pipes, pipes_to_run, best_cost,
                   required_filters, required_filters_costs, done, result, first_run, plug_checks>>
    /\ UNCHANGED <<mergeVars, runnerVars, feedVars, transformVars>>

\* plug(sinks, transforms, sources) is called
InitPlan ==
    /\ input = <<>>
    /\ iters = <<>>
    /\ sources = <<>>
    /\ cache = <<>>
    /\ emitted = <<>>
    /\ stops = 0
    /\ path = "none"
    /\ InitRunners(0)
    /\ pc = "source"
    /\ k = 1
    /\ sinks = <<>>
    /\ \/ /\ transforms \in {T \in SUBSET PlanTransformPool : Cardinality(T) <= MaxTransforms}
          /\ plug_sources \in SeqsUpTo(PlanSourceKinds, MaxPlanSources)
          /\ Cardinality(transforms) + Len(plug_sources) <= MaxPlanTotal
       \/ /\ transforms = {CheapVersionToPackage}
          /\ plug_sources = <<CheapVersionSource>>
    /\ reachable = {}
    /\ todo = {}
    /\ best_scope = [feed_type \in FeedTypes |-> NoScope]
    /\ good_sinks = <<>>
    /\ bad_sinks = <<>>
    /\ NoPlan
    /\ NoFeed
    /\ NoTransform

NextPlan ==
    \/ ReachSource \/ ReachPop \/ ReachRecord \/ PlanThrowOut \/ PruneSources
    \/ SearchPop \/ SearchDone \/ CombinePop \/ CombineDone
    \/ SortSinks \/ BuildPipe \/ PlugReturn

\* plug from the call to the return or the failed assertion
SpecPlan == InitPlan /\ [][NextPlan]_vars

\* sources of versions of either cost, at either scope and with either filter
CostedSourceKinds ==
    [feed_type : {versioned_feed}, scope : {version_scope, package_scope},
     filter_type : FilterTypes, cost : {5, 10}]

\* plug(sinks, transforms, sources) is called with sources of different costs
InitSourceMap ==
    /\ input = <<>>
    /\ iters = <<>>
    /\ sources = <<>>
    /\ cache = <<>>
    /\ emitted = <<>>
    /\ stops = 0
    /\ path = "none"
    /\ InitRunners(0)
    /\ pc = "source"
    /\ k = 1
    /\ sinks = <<>>
    /\ transforms \in {T \in SUBSET PlanTransformPool : Cardinality(T) <= MaxTransforms}
    /\ plug_sources \in SeqsUpTo(CostedSourceKinds, MaxPlanSources)
    /\ Cardinality(transforms) + Len(plug_sources) <= MaxPlanTotal
    /\ reachable = {}
    /\ todo = {}
    /\ best_scope = [feed_type \in FeedTypes |-> NoScope]
    /\ good_sinks = <<>>
    /\ bad_sinks = <<>>
    /\ NoPlan
    /\ NoFeed
    /\ NoTransform

NextSourceMap == ReachSource \/ ReachPop \/ ReachRecord \/ PlanThrowOut \/ PruneSources

\* plug up to the point where the single-pipeline search is set up
SpecSourceMap == InitSourceMap /\ [][NextSourceMap]_vars

\* plug runs on: a statement that can be executed is executed
SpecPlanFair == InitPlan /\ [][NextPlan]_vars /\ WF_vars(NextPlan)

----------------------------------------------------------------------------
(* base.plug: what a call returned, and a second call on the same arguments *)

\* plug has returned or failed an assertion
PlugEnded == pc \in {"returned", "sinks left", "did not find a solution?"}

RECURSIVE TreeSinks(_)
RECURSIVE ChildrenSinks(_)

\* the sinks that are leaves below the children, in order
ChildrenSinks(children) ==
    IF children = <<>> THEN <<>>
    ELSE (IF Head(children).kind = "sink" THEN <<Head(children).sink>>
          ELSE TreeSinks(Head(children).child)) \o ChildrenSinks(Tail(children))

\* the sinks that are leaves of the tree, in order
TreeSinks(tree) == ChildrenSinks(tree.checks)

RECURSIVE TreeRunners(_)

\* the CheckRunner nodes of the tree
TreeRunners(tree) ==
    {tree} \cup UNION {TreeRunners(tree.checks[p].child) :
                         p \in {q \in DOMAIN tree.checks : tree.checks[q].kind = "transform"}}

\* the sinks held directly by the runner, in the order of its checks
RunnerSinks(runner) ==
    LET held == SelectSeq(runner.checks, LAMBDA c : c.kind = "sink")
    IN [p \in DOMAIN held |-> held[p].sink]

RECURSIVE TreeCost(_)
RECURSIVE ChildrenCost(_)

ChildrenCost(children) ==
    IF children = <<>> THEN 0
    ELSE (IF Head(children).kind = "transform"
          THEN Head(children).transform.cost + TreeCost(Head(children).child)
          ELSE 0) + ChildrenCost(Tail(children))

\* the cost of the transforms of the tree
TreeCost(tree) == ChildrenCost(tree.checks)

RECURSIVE PipelinesSinks(_)

\* the sinks that are leaves of the trees of the pipelines, in order
PipelinesSinks(pipelines) ==
    IF pipelines = <<>> THEN <<>>
    ELSE TreeSinks(Head(pipelines).tree) \o PipelinesSinks(Tail(pipelines))

RECURSIVE PipelinesCost(_)

\* the total cost of the pipelines: their sources and their transforms
PipelinesCost(pipelines) ==
    IF pipelines = <<>> THEN 0
    ELSE Head(pipelines).source.cost + TreeCost(Head(pipelines).tree)
         + PipelinesCost(Tail(pipelines))

\* the assignment of sinks to runners: every sink id with the ids of the
\* sinks of the runner that holds it
Assignment(pipelines) ==
    UNION {{<<RunnerSinks(runner)[c].id,
              {RunnerSinks(runner)[q].id : q \in DOMAIN RunnerSinks(runner)}>> :
              c \in DOMAIN RunnerSinks(runner)} :
             runner \in UNION {TreeRunners(pipelines[p].tree) : p \in DOMAIN pipelines}}

\* how the call ended and what it returned
Outcome ==
    [pc |-> pc, bad |-> returned.bad, cost |-> PipelinesCost(returned.pipes),
     assignment |-> Assignment(returned.pipes)]

\* plug is called again on the arguments of the call that has ended
PlugAgain ==
    /\ PlugEnded
    /\ first_run = NoRun
    /\ first_run' = Outcome
    /\ pc' = "source"
    /\ k' = 1
    /\ reachable' = {}
    /\ todo' = {}
    /\ best_scope' = [feed_type \in FeedTypes |-> NoScope]
    /\ good_sinks' = <<>>
    /\ bad_sinks' = <<>>
    /\ source_map' = <<>>
    /\ unprocessed' = {}
    /\ pipes' = {}
    /\ pipes_to_run' = <<>>
    /\ best_cost' = NoCost
    /\ required_filters' = {}
    /\ required_filters_costs' = <<>>
    /\ done' = {}
    /\ result' = <<>>
    /\ returned' = NoReturn
    /\ UNCHANGED <<sinks, transforms, plug_sources, priority, plug_checks>>
    /\ UNCHANGED <<mergeVars, runnerVars, feedVars, transformVars>>

NextPlanTwice == NextPlan \/ PlugAgain

\* two calls of plug on the same arguments, one after the other
SpecPlanTwice == InitPlan /\ [][NextPlanTwice]_vars

----------------------------------------------------------------------------
(* pipeline.plug: checks bound to the source of the type they declare *)

SourceTypes == 1..MaxSourceTypes

\* the source instances that can be registered
SourceInstances == {"source a", "source b"}

\* the checks arguments: every check declares a source type; id is the
\* position of the check in the argument
BindCheckSeqs ==
    UNION {{[p \in 1..n |-> [id |-> p, source |-> f[p]]] : f \in [1..n -> SourceTypes]} :
             n \in 0..MaxBindChecks}

\* the sources arguments: dicts from source type to source instance, as the
\* (key, value) items in insertion order
BindSourceDicts ==
    UNION {{[p \in 1..n |-> [key |-> keys[p], value |-> values[p]]] :
              <<keys, values>> \in
                  {o \in [1..n -> SourceTypes] : \A p, q \in 1..n : p # q => o[p] # o[q]}
                  \X [1..n -> SourceInstances]} :
             n \in 0..MaxSourceTypes}

\* build_sink(source_type): the children taken from the sinks, scanned from
\* the end
build_sink(snks, source_type) == Reversed(SelectSeq(snks, LAMBDA s : s.source = source_type))

\* BoundAlways keeps the pair although build_sink returned None
BoundAlways(goods, source, children) ==
    Append(goods, [source |-> source, tree |-> CheckRunner(children)])

\* the pairs once build_sink has returned: the (source, runner) pair is
\* appended when there are children
Bound(goods, source, children) ==
    IF children # <<>>
    THEN Append(goods, [source |-> source, tree |-> CheckRunner(children)])
    ELSE goods

\* one round of the for loop over sources.items()
BindSource ==
    /\ pc = "bind"
    /\ k <= Len(plug_sources)
    /\ LET source_type == plug_sources[k].key
           children == build_sink(sinks, source_type)
       IN /\ sinks' = SelectSeq(sinks, LAMBDA s : s.source # source_type)
          /\ good_sinks' = Bound(good_sinks, plug_sources[k].value, children)
    /\ k' = k + 1
    /\ UNCHANGED <<pc, transforms, plug_sources, reachable, todo, best_scope, bad_sinks>>
    /\ UNCHANGED planVars
    /\ UNCHANGED <<mergeVars, runnerVars, feedVars, transformVars>>

\* the loop is over: the assertion that no sink is left, and the return
BindReturn ==
    /\ pc = "bind"
    /\ k > Len(plug_sources)
    /\ IF sinks # <<>>
       THEN /\ pc' = "sinks left"
            /\ UNCHANGED returned
       ELSE /\ pc' = "returned"
            /\ returned' = [bad |-> <<>>, pipes |-> good_sinks, none |-> FALSE]
    /\ UNCHANGED <<k, sinks, transforms, plug_sources, reachable, todo, best_scope,
                   good_sinks, bad_sinks>>
    /\ UNCHANGED <<priority, source_map, unprocessed, pipes, pipes_to_run, best_cost,
                   required_filters, required_filters_costs, done, result, first_run,
                   plug_checks>>
    /\ UNCHANGED <<mergeVars, runnerVars, feedVars, transformVars>>

\* plug(checks, sources) is called and sinks = list(checks) is done
InitBind ==
    /\ input = <<>>
    /\ iters = <<>>
    /\ sources = <<>>
    /\ cache = <<>>
    /\ emitted = <<>>
    /\ stops = 0
    /\ path = "none"
    /\ InitRunners(0)
    /\ pc = "bind"
    /\ k = 1
    /\ plug_checks \in BindCheckSeqs
    /\ sinks = plug_checks
    /\ transforms = {}
    /\ plug_sources \in BindSourceDicts
    /\ reachable = {}
    /\ todo = {}
    /\ best_scope = <<>>
    /\ good_sinks = <<>>
    /\ bad_sinks = <<>>
    /\ priority = <<>>
    /\ source_map = <<>>
    /\ unprocessed = {}
    /\ pipes = {}
    /\ pipes_to_run = <<>>
    /\ best_cost = NoCost
    /\ required_filters = {}
    /\ required_filters_costs = <<>>
    /\ done = {}
    /\ result = <<>>
    /\ returned = NoReturn
    /\ first_run = NoRun
    /\ NoFeed
    /\ NoTransform

NextBind == BindSource \/ BindReturn

SpecBind == InitBind /\ [][NextBind]_vars

----------------------------------------------------------------------------
(* Properties of the merge *)

\* every source yields its items in non-decreasing key order
SourcesOrdered ==
    \A i \in DOMAIN input :
        \A p, q \in 1..Len(input[i]) :
            p < q => Key([item |-> input[i][p]]) <= Key([item |-> input[i][q]])

\* the items emitted with pipe index i, in emission order
RECURSIVE EmittedOf(_, _)
EmittedOf(e, i) ==
    IF e = <<>> THEN <<>>
    ELSE IF Head(e).idx = i
         THEN <<Head(e).item>> \o EmittedOf(Tail(e), i)
         ELSE EmittedOf(Tail(e), i)

IsPrefix(s, t) == Len(s) <= Len(t) /\ \A p \in 1..Len(s) : s[p] = t[p]

\* the number of pipe indices that occur in the output
EmittedIndices == {emitted[p].idx : p \in 1..Len(emitted)}

\* C1: when every source yields its items in non-decreasing key order, the
\* pairs emitted so far are in non-decreasing key order, on the interleaving
\* path and on the single-source path alike.
C1_GloballyOrdered ==
    SourcesOrdered =>
        \A p, q \in 1..Len(emitted) : p < q => Key(emitted[p]) <= Key(emitted[q])

\* C1 witness: ordered sources, the merge went from interleaving to the
\* single-source path and emitted there, after pairs of another source.
C1_Witness ==
    /\ SourcesOrdered
    /\ path = "single"
    /\ Cardinality(EmittedIndices) >= 2
    /\ Len(emitted) >= 3
    /\ Key(emitted[1]) < Key(emitted[Len(emitted)])

\* C2: the output restricted to pipe index i is always a prefix of the items
\* of source i, no pair carries an index that is not a source's, and once
\* the merge has signalled exhaustion the restriction is the whole source.
C2_NothingLostOrDuplicated ==
    /\ EmittedIndices \subseteq DOMAIN input
    /\ \A i \in DOMAIN input :
          /\ IsPrefix(EmittedOf(emitted, i), input[i])
          /\ stops > 0 => EmittedOf(emitted, i) = input[i]

\* C2 witness: an exhausted merge of two non-empty sources, MaxTotal items.
C2_Witness ==
    /\ stops > 0
    /\ Len(emitted) = MaxTotal
    /\ \E i, j \in DOMAIN input : i # j /\ input[i] # <<>> /\ input[j] # <<>>

\* C3: with n items in all, an advance made before n pairs were emitted
\* emits one more pair and does not signal exhaustion; every advance made
\* after the n-th emission signals exhaustion and emits nothing.
C3_Termination ==
    [][LET n == TotalLen(input, Len(input))
       IN /\ Len(emitted) < n => Len(emitted') = Len(emitted) + 1 /\ stops' = stops
          /\ Len(emitted) >= n => emitted' = emitted /\ stops' = stops + 1]_vars

\* C3 witness: exhaustion signalled MaxStops times after several sources
\* were drained.
C3_Witness ==
    /\ stops = MaxStops
    /\ Len(input) >= 2
    /\ Len(emitted) = TotalLen(input, Len(input))
    /\ Len(emitted) >= 2

\* C3 witnesses for no source and for one source
C3_WitnessNoSource == stops = MaxStops /\ Len(input) = 0

C3_WitnessOneSource == stops = MaxStops /\ Len(input) = 1 /\ Len(emitted) = MaxLen

----------------------------------------------------------------------------
(* Properties of the pipeline driver *)

\* the calls of a log are start, feed ..., finish
Lifecycle(l) ==
    /\ Len(l) >= 2
    /\ l[1].op = "start"
    /\ l[Len(l)].op = "finish"
    /\ \A p \in 2..(Len(l) - 1) : l[p].op = "feed"

\* some runner received the call op
Received(op) == \E i \in DOMAIN log : \E p \in 1..Len(log[i]) : log[i][p].op = op

\* the merge has nothing left to emit
MergeExhausted ==
    /\ stops > 0
    /\ cache = <<>>
    /\ \A i \in DOMAIN iters : iters[i] = <<>>

\* the items of the feed calls of a log, in order
RECURSIVE FedItems(_)
FedItems(l) ==
    IF l = <<>> THEN <<>>
    ELSE IF Head(l).op = "feed"
         THEN <<Head(l).item>> \o FedItems(Tail(l))
         ELSE FedItems(Tail(l))

\* C4: a run that reached its end gave every tree start, then feeds, then
\* finish, each of start and finish once; at any moment of any run start is
\* a tree's first call and finish its last, no tree is fed before every tree
\* was started and no tree is finished before the merge is exhausted.
C4_Lifecycle ==
    /\ pc = "done" => \A i \in DOMAIN log : Lifecycle(log[i])
    /\ \A i \in DOMAIN log : \A p \in 1..Len(log[i]) :
          /\ log[i][p].op = "start" <=> p = 1
          /\ log[i][p].op = "finish" => p = Len(log[i])
    /\ Received("feed") => \A j \in DOMAIN log : log[j] # <<>>
    /\ Received("finish") => MergeExhausted

\* C4 witness: a completed run of two pipes, each fed an item.
C4_Witness ==
    /\ pc = "done"
    /\ Len(log) = 2
    /\ \A i \in DOMAIN log : Len(log[i]) = 3

\* C5: a tree has been fed exactly the items the merge emitted with its
\* index, in that order, and these are all the items of its source once the
\* feed loop has ended; the step that emits (item, index) appends the feed of
\* item to tree index and leaves every other tree as it was.
C5_Dispatch ==
    /\ [](\A i \in DOMAIN log :
            /\ FedItems(log[i]) = EmittedOf(emitted, i)
            /\ pc \in {"finish", "done"} => FedItems(log[i]) = input[i])
    /\ [][emitted' # emitted =>
            LET e == emitted'[Len(emitted')]
            IN /\ log'[e.idx] = Append(log[e.idx], [op |-> "feed", item |-> e.item])
               /\ \A j \in DOMAIN log :
                     j # e.idx => /\ log'[j] = log[j]
                                  /\ metadata_errors'[j] = metadata_errors[j]
                                  /\ reported'[j] = reported[j]]_vars

\* C5 witness: the feed loop ended after the second of two trees was fed
\* the items of its source, the first tree fed its own.
C5_Witness ==
    /\ pc = "finish"
    /\ Len(log) = 2
    /\ FedItems(log[1]) # <<>>
    /\ FedItems(log[2]) = input[2]
    /\ input[2] # input[1]
    /\ input[2] # <<>>

----------------------------------------------------------------------------
(* Properties of the check runner *)

\* the position of the first check that raises a fatal exception, or the
\* number of checks when none does: the checks the call has to invoke
Reached(outs) ==
    IF \E p \in 1..Len(outs) : outs[p].exc = "fatal"
    THEN CHOOSE p \in 1..Len(outs) :
            /\ outs[p].exc = "fatal"
            /\ \A q \in 1..(p - 1) : outs[q].exc # "fatal"
    ELSE Len(outs)

\* the number of Results of the given type that came from the sink at p
RECURSIVE CountOf(_, _, _)
CountOf(res, type, p) ==
    IF res = <<>> THEN 0
    ELSE (IF Head(res).type = type /\ Head(res).sink = p THEN 1 ELSE 0)
         + CountOf(Tail(res), type, p)

\* a call isolated the metadata errors of its sinks
Isolated(call) ==
    /\ call.exc # "meta"
    /\ call.invoked = Reached(call.outs)
    /\ \A p \in 1..call.invoked :
          /\ CountOf(call.results, "Result", p) = call.outs[p].pre
          /\ CountOf(call.results, "MetadataError", p) <= 1
          /\ CountOf(call.results, "MetadataError", p) = 1 => call.outs[p].exc = "meta"

\* C6: in a start or feed call a metadata error never leaves the runner;
\* every sink up to the first one raising a fatal exception is invoked, the
\* Results each of them yielded before raising are delivered, and a sink
\* that raised a metadata error accounts for at most one MetadataError.
C6_StartFeedIsolated ==
    last.op \in {"start", "feed"} => Isolated(last)

\* C6 witness: in a feed the first sink yielded a Result and raised a
\* metadata error, which was reported, and the second sink was still invoked
\* and its Result delivered.
C6_Witness ==
    /\ last.op = "feed"
    /\ Len(last.outs) = 2
    /\ last.outs[1].exc = "meta" /\ last.outs[1].pre = 1
    /\ last.outs[2].pre = 1
    /\ last.invoked = 2
    /\ CountOf(last.results, "MetadataError", 1) = 1
    /\ CountOf(last.results, "Result", 2) = 1

\* C7: a metadata error raised by a sink during finish is caught for that
\* sink only, does not abort the runner, and the remaining sinks' finish
\* calls still run, as for start and feed.
C7_FinishIsolated ==
    last.op = "finish" => Isolated(last)

\* C8: a runner has yielded exactly one MetadataError for every (entity,
\* message) pair its sinks raised in its start and feed calls, and none for
\* any other pair.
C8_Dedup ==
    \A i \in DOMAIN reported : \A key \in MetaKeys :
        reported[i][key] = IF key \in raised[i] THEN 1 ELSE 0

\* C8 witness: a pair first seen in start is raised again by both sinks of
\* the following feed, which yields no MetadataError for it.
C8_Witness ==
    /\ Len(log[1]) = 2
    /\ last.op = "feed"
    /\ last.invoked = 2
    /\ \E key \in last.before :
          /\ \A p \in 1..2 : last.outs[p].exc = "meta"
                              /\ <<last.outs[p].pkg, last.outs[p].error>> = key
          /\ CountMeta(last.results, key) = 0
          /\ reported[1][key] = 1

\* a sink invoked by the last call raised an exception that is not a
\* metadata error
FatalRaised ==
    \E p \in 1..last.invoked : last.outs[p].exc = "fatal"

\* C9: a fatal exception raised by a sink leaves the runner and the run: the
\* run is aborted there, with no later sink invoked and, unless it was
\* raised in finish, no finish executed; and a run stops before its end
\* only at such an exception.
C9_FatalAborts ==
    /\ FatalRaised => /\ pc = "aborted"
                       /\ last.exc = "fatal"
                       /\ last.outs[last.invoked].exc = "fatal"
    /\ pc = "aborted" /\ last.op # "finish" => ~Received("finish")
    /\ pc = "aborted" => last.exc = "fatal"

----------------------------------------------------------------------------
(* Properties of the planner *)

\* the feed types a source reaches from the set S through the transforms
\* whose minimum scope is at most the source's scope
RECURSIVE Closure(_, _)
Closure(S, source) ==
    LET more == S \cup {t.dest : t \in {u \in transforms :
                                         u.source \in S /\ u.scope <= source.scope}}
    IN IF more = S THEN S ELSE Closure(more, source)

\* the sources that reach a feed type
Reaching(feed_type) ==
    {q \in 1..Len(plug_sources) :
        feed_type \in Closure({plug_sources[q].feed_type}, plug_sources[q])}

\* some source reaches the sink's feed type and has at least its scope
Servable(sink) ==
    \E q \in Reaching(sink.feed_type) : plug_sources[q].scope >= sink.scope

Sinks_Classified == pc \in {"classified", "returned"}

\* C10: once the sinks are classified, best_scope of a feed type is
\* undefined when no source reaches it and the largest scope of the sources
\* reaching it otherwise; the bad sinks are the sinks that no source reaches
\* or whose scope is above best_scope, the good sinks are the sinks reached
\* by a source of at least their scope, both in the order given.
C10_BadSinks ==
    Sinks_Classified =>
        /\ \A feed_type \in FeedTypes :
              IF Reaching(feed_type) = {}
              THEN best_scope[feed_type] = NoScope
              ELSE /\ \E q \in Reaching(feed_type) : best_scope[feed_type] = plug_sources[q].scope
                   /\ \A q \in Reaching(feed_type) : best_scope[feed_type] >= plug_sources[q].scope
        /\ bad_sinks = SelectSeq(sinks, LAMBDA sink : ~Servable(sink))
        /\ good_sinks = SelectSeq(sinks, LAMBDA sink : Servable(sink))
        /\ \A p \in 1..Len(bad_sinks) :
              \/ Reaching(bad_sinks[p].feed_type) = {}
              \/ best_scope[bad_sinks[p].feed_type] < bad_sinks[p].scope

\* C10 witness: a sink is bad although two transforms lead from a source to
\* its feed type, because the best scope reaching it is below its scope.
C10_Witness ==
    /\ Sinks_Classified
    /\ Len(bad_sinks) = 1
    /\ bad_sinks[1].feed_type \notin {versioned_feed, ebuild_feed, package_feed}
    /\ Reaching(bad_sinks[1].feed_type) # {}
    /\ Len(plug_sources) = 2
    /\ Reaching(bad_sinks[1].feed_type) # 1..2

\* C10 witness: a sink is good, reached through a transform by the second
\* source only.
C10_WitnessServable ==
    /\ Sinks_Classified
    /\ Len(good_sinks) = 1
    /\ good_sinks[1].feed_type # versioned_feed
    /\ Reaching(good_sinks[1].feed_type) = {2}

----------------------------------------------------------------------------
(* Properties of the planner: the returned pipelines *)

\* the number of times the sink occurs in the sequence
Occurrences(snks, sink) == Cardinality({p \in DOMAIN snks : snks[p] = sink})

\* some source with the sink's filter type reaches the sink's feed type and
\* has at least its scope
ServableFiltered(sink) ==
    \E q \in Reaching(sink.feed_type) :
        /\ plug_sources[q].scope >= sink.scope
        /\ plug_sources[q].filter_type = sink.filter_type

\* the sinks that the classification keeps
Surviving == SelectSeq(sinks, LAMBDA sink : Servable(sink))

\* C11: whenever plug returns, every sink of the input is either listed
\* exactly once among the bad sinks or is exactly once a leaf of a returned
\* tree, never both and never neither, and nothing else is returned; a sink
\* that no source of its filter type reaches at its scope is listed as bad
\* and is no leaf; when no sink survives the classification all sinks are
\* returned as bad together with no pipeline.
C11_SinksPartitioned ==
    pc = "returned" =>
        LET leaves == PipelinesSinks(returned.pipes)
        IN /\ \A p \in DOMAIN sinks :
                 Occurrences(returned.bad, sinks[p]) + Occurrences(leaves, sinks[p]) = 1
           /\ Len(returned.bad) + Len(leaves) = Len(sinks)
           /\ \A p \in DOMAIN sinks :
                 ~ServableFiltered(sinks[p]) =>
                    /\ Occurrences(returned.bad, sinks[p]) = 1
                    /\ Occurrences(leaves, sinks[p]) = 0
           /\ Surviving = <<>> => returned.bad = sinks /\ returned.pipes = <<>>

\* C11 witness: plug returns a pipeline serving one sink and lists as bad
\* the other sink, which wants masked input that no source provides.
C11_Witness ==
    /\ pc = "returned"
    /\ Len(sinks) = 2
    /\ Len(returned.pipes) = 1
    /\ Len(returned.bad) = 1
    /\ returned.bad[1].filter_type = mask_filter
    /\ \A q \in DOMAIN plug_sources : plug_sources[q].filter_type = no_filter
    /\ Len(PipelinesSinks(returned.pipes)) = 1

\* C11 witness: no sink survives and plug returns both sinks as bad.
C11_WitnessNoneSurvives ==
    /\ pc = "returned"
    /\ Len(sinks) = 2
    /\ plug_sources # <<>>
    /\ Surviving = <<>>
    /\ returned.bad = sinks

\* the runners of the returned trees that hold the sink directly
Holders(sink) ==
    {<<p, runner>> \in UNION {{p} \X TreeRunners(returned.pipes[p].tree) :
                                p \in DOMAIN returned.pipes} :
        \E q \in DOMAIN RunnerSinks(runner) : RunnerSinks(runner)[q] = sink}

\* C12: when at least one sink survives the classification, the assertion
\* that no sink is left holds, and plug returns every surviving sink as a
\* leaf of exactly one runner of exactly one pipeline, whatever the order
\* in which the worklists are popped.
C12_EverySinkAssigned ==
    Surviving # <<>> =>
        /\ pc # "sinks left"
        /\ pc = "returned" =>
              \A p \in DOMAIN Surviving :
                  /\ Occurrences(PipelinesSinks(returned.pipes), Surviving[p]) = 1
                  /\ Cardinality(Holders(Surviving[p])) = 1

\* every sink is served by a source of its own filter type, and still a
\* sink is left
SinksLeftUnfiltered ==
    ~(/\ pc = "sinks left"
      /\ \A p \in DOMAIN sinks : ServableFiltered(sinks[p]))

\* a sink wants masked input and no source provides it
MaskUnsatisfied(sink) ==
    /\ sink.filter_type = mask_filter
    /\ \A q \in DOMAIN plug_sources : plug_sources[q].filter_type # mask_filter

\* C13: when a sink wants masked input and no source provides it, plug ends
\* by returning, the sink is listed once among the bad sinks, and every
\* other sink that a source of its filter type serves is a leaf of a
\* returned tree.
C13_MaskSinkIsBad ==
    (PlugEnded /\ \E p \in DOMAIN sinks : MaskUnsatisfied(sinks[p])) =>
        /\ pc = "returned"
        /\ \A p \in DOMAIN sinks :
              /\ MaskUnsatisfied(sinks[p]) => Occurrences(returned.bad, sinks[p]) = 1
              /\ ServableFiltered(sinks[p]) =>
                    Occurrences(PipelinesSinks(returned.pipes), sinks[p]) = 1

----------------------------------------------------------------------------
(* Properties of the planner: the searches *)

\* the sources kept in source_map
Retained == {source_map[p].value : p \in DOMAIN source_map}

\* the feed types and the filter types of the surviving sinks
NeededFeeds == {Surviving[p].feed_type : p \in DOMAIN Surviving}

NeededFilters == {Surviving[p].filter_type : p \in DOMAIN Surviving}

\* a retained source reaches every needed feed type by itself and has a
\* filter type that a surviving sink requires
SingleSourceSuffices ==
    \E source \in Retained :
        /\ NeededFeeds \subseteq Closure({source.feed_type}, source)
        /\ source.filter_type \in NeededFilters

\* the sinks, sources and transforms of the worked example: a sink of
\* versions and a sink of packages, both unfiltered
WorkedExample ==
    /\ transforms = {CheapVersionToPackage}
    /\ plug_sources = <<CheapVersionSource>>
    /\ Len(sinks) = 2
    /\ {sinks[p].feed_type : p \in DOMAIN sinks} = {versioned_feed, package_feed}
    /\ \A p \in DOMAIN sinks : sinks[p].filter_type = no_filter

\* C14: when a retained source reaches every surviving sink's feed type by
\* itself and has a filter type some surviving sink requires, the
\* combination search is never run and every pipe to run is a complete Pipe
\* found by the single-pipeline search, of which the returned pipelines are
\* built; on the worked example (source at package scope) plug returns no
\* bad sink and one pipeline of that source and that transform, of total
\* cost 7, serving both sinks.
C14_SinglePreferred ==
    /\ (source_map # <<>> /\ SingleSourceSuffices) =>
          /\ pc # "combine"
          /\ done = {}
          /\ pc \in {"sort", "build", "returned", "sinks left"} =>
                /\ pipes_to_run # <<>>
                /\ \A i \in DOMAIN pipes_to_run :
                      \E pipe \in pipes :
                          /\ pipe.source = pipes_to_run[i].source
                          /\ pipe.trans = pipes_to_run[i].trans
                          /\ NeededFeeds \subseteq pipe.visited
          /\ pc = "returned" =>
                \A p \in DOMAIN returned.pipes :
                    \E i \in DOMAIN pipes_to_run :
                        pipes_to_run[i].source = returned.pipes[p].source
    /\ (WorkedExample /\ PlugEnded) =>
          /\ pc = "returned"
          /\ done = {}
          /\ returned.bad = <<>>
          /\ Len(returned.pipes) = 1
          /\ returned.pipes[1].source = CheapVersionSource
          /\ \E c \in DOMAIN returned.pipes[1].tree.checks :
                /\ returned.pipes[1].tree.checks[c].kind = "transform"
                /\ returned.pipes[1].tree.checks[c].transform = CheapVersionToPackage
          /\ PipelinesCost(returned.pipes) = 7
          /\ \A p \in DOMAIN sinks :
                Occurrences(PipelinesSinks(returned.pipes), sinks[p]) = 1

\* C14 witness: plug returns the single pipeline of a source although two
\* sources together would reach every needed feed type at a lower cost.
C14_Witness ==
    /\ pc = "returned"
    /\ SingleSourceSuffices
    /\ Len(returned.pipes) = 1
    /\ \E a, b \in pipes :
          /\ a.source # b.source
          /\ NeededFeeds \subseteq a.visited \cup b.visited
          /\ a.cost + b.cost < PipelinesCost(returned.pipes)

\* C14 witness: plug has returned on the worked example.
C14_WitnessExample == WorkedExample /\ pc = "returned"

\* the sources surviving the pruning that share the source's scope, feed
\* type and filter type
Group(source) ==
    {q \in DOMAIN Pruned : /\ Pruned[q].scope = source.scope
                           /\ Pruned[q].feed_type = source.feed_type
                           /\ Pruned[q].filter_type = source.filter_type}

\* C15: when the single-pipeline search is set up, of every group of
\* sources that survived the pruning and share scope, feed type and filter
\* type exactly one source is retained, and its cost is the lowest cost of
\* the group, whatever the order of the sources.
C15_CheapestSource ==
    pc = "search" =>
        \A q \in DOMAIN Pruned :
            /\ Cardinality({p \in DOMAIN source_map :
                               source_map[p].key = <<Pruned[q].scope, Pruned[q].feed_type,
                                                     Pruned[q].filter_type>>}) = 1
            /\ \E source \in Retained :
                  /\ Group(source) = Group(Pruned[q])
                  /\ \A r \in Group(Pruned[q]) : source.cost <= Pruned[r].cost
                  /\ \A other \in Retained : Group(other) = Group(source) => other = source

RECURSIVE AllPipes(_)

\* every Pipe that growing the Pipes of S one transform at a time can give
AllPipes(S) ==
    LET more == S \cup UNION {Grown(pipe) : pipe \in S}
    IN IF more = S THEN S ELSE AllPipes(more)

\* the Pipes of the retained sources with the filter type that reach every
\* needed feed type
CompletePipes(filter_type) ==
    {pipe \in AllPipes({Pipe({source.feed_type}, source, {}, source.cost) :
                           source \in Retained}) :
        /\ pipe.source.filter_type = filter_type
        /\ NeededFeeds \subseteq pipe.visited}

\* the single-pipeline search has emptied its worklist
SearchEnded == pc = "search" /\ unprocessed = {}

\* C16: when the single-pipeline search has ended, for every required filter
\* type that has a complete Pipe, the cost recorded for the filter type is
\* the lowest cost of its complete Pipes and a Pipe of that cost is among
\* the pipes to run, whatever the order in which the Pipes were popped.
C16_CheapestPipe ==
    SearchEnded =>
        \A filter_type \in NeededFilters :
            CompletePipes(filter_type) # {} =>
               /\ required_filters_costs[filter_type] # NoCost
               /\ \A pipe \in CompletePipes(filter_type) :
                     required_filters_costs[filter_type] <= pipe.cost
               /\ \E i \in DOMAIN pipes_to_run :
                     \E pipe \in CompletePipes(filter_type) :
                         /\ pipe.cost = required_filters_costs[filter_type]
                         /\ pipe.source = pipes_to_run[i].source
                         /\ pipe.trans = pipes_to_run[i].trans

\* C17: two calls of plug on the same sinks, transforms and sources that both
\* return, return pipelines of the same total cost and with the same
\* assignment of sinks to runners, however the worklists were popped.
C17_Deterministic ==
    (first_run # NoRun /\ first_run.pc = "returned" /\ pc = "returned") =>
        /\ Outcome.cost = first_run.cost
        /\ Outcome.assignment = first_run.assignment

\* the runners of the trees plug has built
BuiltRunners == UNION {TreeRunners(result[p].tree) : p \in DOMAIN result}

\* C18: among the sinks that plug attached to the same runner, a sink of
\* lower priority value stands before every sink of higher priority value.
C18_PriorityOrder ==
    pc \in {"build", "returned"} =>
        \A runner \in BuiltRunners :
            \A p, q \in DOMAIN RunnerSinks(runner) :
                priority[RunnerSinks(runner)[p].id] < priority[RunnerSinks(runner)[q].id]
                    => p < q

\* C19: plug always ends, by a return or a failed assertion: both searches
\* empty their worklists after finitely many pops
C19_Termination == <>PlugEnded

\* C19 witness: with the transforms from versions to ebuilds and back, both
\* searches have run, the first has followed the cycle, and plug has ended.
C19_Witness ==
    /\ PlugEnded
    /\ transforms = {VersionToEbuild, EbuildToVersion}
    /\ done # {}
    /\ \E pipe \in pipes : pipe.visited = {versioned_feed, ebuild_feed}

\* C19 witness: plug has returned the pipelines the combination search found.
C19_WitnessReturned ==
    /\ pc = "returned"
    /\ Cardinality(done) > 2
    /\ Len(returned.pipes) = 2

----------------------------------------------------------------------------
(* Properties of pipeline.plug *)

\* the source types under which a source is registered
RegisteredTypes == {plug_sources[p].key : p \in DOMAIN plug_sources}

\* sources[source_type]
Registered(source_type) ==
    plug_sources[CHOOSE p \in DOMAIN plug_sources : plug_sources[p].key = source_type].value

\* C20: when pipeline.plug returns, every check is once a member of exactly
\* one returned runner, that runner is paired with the source registered
\* under the source type the check declares, every returned runner has a
\* check, and a source that no check declares is left out; when a check
\* declares a source type that is no key of sources, plug fails the
\* assertion that no sink is left and returns nothing.
C20_FixedBinding ==
    /\ pc = "returned" =>
          /\ \A c \in DOMAIN plug_checks :
                /\ Cardinality({p \in DOMAIN returned.pipes :
                                   Occurrences(returned.pipes[p].tree.checks, plug_checks[c]) = 1}) = 1
                /\ \A p \in DOMAIN returned.pipes :
                      Occurrences(returned.pipes[p].tree.checks, plug_checks[c]) > 0 =>
                         /\ plug_checks[c].source \in RegisteredTypes
                         /\ returned.pipes[p].source = Registered(plug_checks[c].source)
          /\ \A p \in DOMAIN returned.pipes :
                /\ returned.pipes[p].tree.checks # <<>>
                /\ \A q \in DOMAIN returned.pipes[p].tree.checks :
                      Occurrences(plug_checks, returned.pipes[p].tree.checks[q]) = 1
          /\ Len(returned.pipes) =
                Cardinality({t \in RegisteredTypes :
                               \E c \in DOMAIN plug_checks : plug_checks[c].source = t})
    /\ (pc \in {"returned", "sinks left"}
        /\ \E c \in DOMAIN plug_checks : plug_checks[c].source \notin RegisteredTypes) =>
          /\ pc = "sinks left"
          /\ returned = NoReturn

\* C20 witness: plug returns two runners for three checks and leaves out
\* the third source, which no check declares.
C20_Witness ==
    /\ pc = "returned"
    /\ Len(plug_checks) = 3
    /\ Len(plug_sources) = 3
    /\ Len(returned.pipes) = 2

\* C20 witness: a check declares a source type that is not registered, and
\* plug fails the assertion after binding another check.
C20_WitnessSinksLeft ==
    /\ pc = "sinks left"
    /\ plug_checks # <<>>
    /\ good_sinks # <<>>

----------------------------------------------------------------------------
(* UnusedFileCheck.feed.  A file name, a package name and the text of an   *)
(* ebuild are sequences of characters.                                     *)

\* [0-9]
Digit == {"0", "1", "2", "3", "4", "5", "6", "7", "8", "9"}

\* [a-z]
Lower == {"a", "b", "c", "d", "e", "f", "g", "h", "i", "j", "k", "l", "m",
          "n", "o", "p", "q", "r", "s", "t", "u", "v", "w", "x", "y", "z"}

\* (alpha|beta|pre|rc|p), in the order the alternatives are tried
SuffixWords ==
    << <<"a", "l", "p", "h", "a">>, <<"b", "e", "t", "a">>, <<"p", "r", "e">>,
       <<"r", "c">>, <<"p">> >>

\* c * n
Rep(c, n) == [i \in 1..n |-> c]

\* s[i - 1:], for a position i counted from 1
From(s, i) == SubSeq(s, i, Len(s))

\* s.startswith(prefix)
StartsWith(s, prefix) == Len(s) >= Len(prefix) /\ SubSeq(s, 1, Len(prefix)) = prefix

\* sub in text
Contains(text, sub) ==
    \E i \in 1..(Len(text) - Len(sub) + 1) : SubSeq(text, i, i + Len(sub) - 1) = sub

\* [0-9]* matched at position i: the position after the match
RECURSIVE SkipDigits(_, _)
SkipDigits(s, i) ==
    IF i <= Len(s) /\ s[i] \in Digit THEN SkipDigits(s, i + 1) ELSE i

\* (\.[0-9]+)* matched at position i
RECURSIVE SkipDotted(_, _)
SkipDotted(s, i) ==
    IF i <= Len(s) /\ s[i] = "." /\ SkipDigits(s, i + 1) > i + 1
    THEN SkipDotted(s, SkipDigits(s, i + 1))
    ELSE i

\* ([a-z]?) matched at position i
SkipLetter(s, i) == IF i <= Len(s) /\ s[i] \in Lower THEN i + 1 ELSE i

\* (alpha|beta|pre|rc|p) matched at position i: the position after the
\* first alternative that matches, 0 if none does
RECURSIVE MatchWord(_, _, _)
MatchWord(s, i, w) ==
    IF w > Len(SuffixWords) THEN 0
    ELSE IF StartsWith(From(s, i), SuffixWords[w]) THEN i + Len(SuffixWords[w])
    ELSE MatchWord(s, i, w + 1)

\* ((_(alpha|beta|pre|rc|p)[0-9]*)*) matched at position i
RECURSIVE SkipSuffixes(_, _)
SkipSuffixes(s, i) ==
    IF i <= Len(s) /\ s[i] = "_" /\ MatchWord(s, i + 1, 1) # 0
    THEN SkipSuffixes(s, SkipDigits(s, MatchWord(s, i + 1, 1)))
    ELSE i

\* (-r[0-9]+)? matched at position i
SkipRevision(s, i) ==
    IF StartsWith(From(s, i), <<"-", "r">>) /\ SkipDigits(s, i + 2) > i + 2
    THEN SkipDigits(s, i + 2)
    ELSE i

\* pms_ver_re matched at the start of s: the position after the match, 1
\* if the expression does not match
pms_ver_re(s) ==
    IF SkipDigits(s, 1) = 1 THEN 1
    ELSE SkipRevision(s, SkipSuffixes(s, SkipLetter(s, SkipDotted(s, SkipDigits(s, 1)))))

\* re.sub(self.pms_ver_re, "", filename)
re_sub(filename) == From(filename, pms_ver_re(filename))

\* filename after the package name and one hyphen are cut off its start
CutPackage(filename, package) ==
    IF StartsWith(filename, package)
    THEN LET cut == From(filename, Len(package) + 1)
         IN IF cut # <<>> /\ cut[1] = "-" THEN Tail(cut) ELSE cut
    ELSE filename

\* filename as feed compares it with the ebuilds
Stripped(filename, package) == re_sub(CutPackage(filename, package))

\* the file is used: an ebuild of pkgs holds the stripped name
file_used(filename, ebuilds) ==
    \E e \in DOMAIN ebuilds : Contains(ebuilds[e].text, filename)

\* the round yielding the name it compared instead of the name on disk
YieldedStripped(entry, ebuilds) ==
    IF ~entry.is_file THEN <<>>
    ELSE LET filename == Stripped(entry.name, ebuilds[1].package)
         IN IF Len(filename) < 16 THEN <<>>
            ELSE IF file_used(filename, ebuilds) THEN <<>>
            ELSE <<[file |-> filename, pkg |-> ebuilds[1].package]>>

\* what one round of the loop over filesdir.iterdir() yields for an entry:
\* PotentiallyUnusedFile(actual_filename, pkg=pkg) or nothing
Yielded(entry, ebuilds) ==
    IF ~entry.is_file THEN <<>>
    ELSE LET filename == Stripped(entry.name, ebuilds[1].package)
         IN IF Len(filename) < 16 THEN <<>>
            ELSE IF file_used(filename, ebuilds) THEN <<>>
            ELSE <<[file |-> entry.name, pkg |-> ebuilds[1].package]>>

\* pkg.package
PackageName == <<"f", "o">>

\* what a file name starts with
NamePrefixes == {<<>>, PackageName, PackageName \o <<"-">>}

\* versions, whole or cut short, a file name goes on with
NameVersions ==
    {<<>>, <<"1">>, <<"1", ".", "2">>, <<"1", "_", "p", "r", "e", "3">>,
     <<"1", "_", "p", "r">>, <<"1", "b", "-", "r", "1">>}

\* what a file name ends with: lengths on either side of 16, starting with
\* a letter or with a dot
NameRests ==
    {<<"x">> \o Rep("X", n - 1) : n \in 15..MaxRest}
    \cup {<<".">> \o Rep("Y", n - 1) : n \in 15..MaxRest}

FileNames == {p \o v \o r : p \in NamePrefixes, v \in NameVersions, r \in NameRests}

\* entries of FILESDIR: regular files and others
Paths == [name : FileNames, is_file : BOOLEAN]

\* the texts of ebuilds: empty, and naming files
EbuildTexts ==
    {<<>>,
     <<"/">> \o <<"x">> \o Rep("X", 15) \o <<"\"">>,
     <<"-">> \o <<".">> \o Rep("Y", 15),
     <<"X">> \o Rep("X", 14)}

Ebuilds == [package : {PackageName}, text : EbuildTexts]

\* feed(pkgs) is called for a package with or without a FILESDIR
InitFeed ==
    /\ input = <<>>
    /\ iters = <<>>
    /\ sources = <<>>
    /\ cache = <<>>
    /\ emitted = <<>>
    /\ stops = 0
    /\ path = "none"
    /\ InitRunners(0)
    /\ pc = "feed"
    /\ k = 0
    /\ NoPlug
    /\ pkgs \in SeqsUpTo(Ebuilds, MaxEbuilds) \ {<<>>}
    /\ \/ filesdir = NoDir
       \/ \E listing \in SeqsUpTo(Paths, MaxFiles) :
             /\ \A a, b \in DOMAIN listing : listing[a].name = listing[b].name => a = b
             /\ filesdir = [is_dir |-> TRUE, entries |-> {listing[a] : a \in DOMAIN listing}]
    /\ paths = filesdir.entries
    /\ yielded = <<>>
    /\ NoTransform

\* if not filesdir.is_dir(): return
FeedNoFilesdir ==
    /\ pc = "feed"
    /\ ~filesdir.is_dir
    /\ pc' = "fed"
    /\ UNCHANGED <<k, feedVars>>
    /\ UNCHANGED <<mergeVars, runnerVars, plugVars, transformVars>>

\* one round of the loop over filesdir.iterdir(), which lists the entries
\* in any order
FeedPath ==
    /\ pc = "feed"
    /\ filesdir.is_dir
    /\ \E entry \in paths :
          /\ paths' = paths \ {entry}
          /\ yielded' = yielded \o Yielded(entry, pkgs)
    /\ UNCHANGED <<pc, k, pkgs, filesdir>>
    /\ UNCHANGED <<mergeVars, runnerVars, plugVars, transformVars>>

\* the loop over filesdir.iterdir() is over
FeedReturn ==
    /\ pc = "feed"
    /\ filesdir.is_dir
    /\ paths = {}
    /\ pc' = "fed"
    /\ UNCHANGED <<k, feedVars>>
    /\ UNCHANGED <<mergeVars, runnerVars, plugVars, transformVars>>

NextFeed == FeedNoFilesdir \/ FeedPath \/ FeedReturn

SpecFeed == InitFeed /\ [][NextFeed]_vars

----------------------------------------------------------------------------
(* feeds: the transforms that buffer what they are fed *)

CollapseClasses == {"VersionToPackage", "VersionToCategory"}

RepoClasses == {"PackageToRepo", "CategoryToRepo"}

TransformClasses == CollapseClasses \cup RepoClasses \cup {"PackageToCategory"}

\* what self.child is: a CheckRunner, whose feed takes the item only, or
\* another transform of feeds, whose feed takes the item and a reporter
ChildClasses == {"CheckRunner", "Transform"}

\* the packages of a versioned feed
Versioned == [category : {"a", "b"}, package : {"x", "y"}, version : 1..MaxVersion]

\* the chunks of a package feed: the versions of one package, in order
PackageChunks ==
    {<<v>> : v \in Versioned}
    \cup {<<v, w>> : <<v, w>> \in
             {pr \in Versioned \X Versioned :
                  /\ pr[1].category = pr[2].category
                  /\ pr[1].package = pr[2].package
                  /\ pr[1].version < pr[2].version}}

\* what the feed of a transform of class cls is called with
FeedItems(cls) == IF cls \in CollapseClasses THEN Versioned ELSE PackageChunks

\* an attribute that was never assigned, one that is None, one with a value
Missing == [state |-> "missing", val |-> <<>>]
None == [state |-> "None", val |-> <<>>]
Value(v) == [state |-> "value", val |-> v]

\* a call of the transform came out: the transform and what its child
\* received afterwards, and the exception that left the call
Called(t, clog, exc) == [xform |-> t, child_log |-> clog, exc |-> exc]

\* base.Transform.start(self, ...) and base.Transform.finish(self, ...):
\* generator functions of the one parameter self; a call with more arguments
\* raises TypeError, a call with none returns a generator nobody iterates,
\* so that the child's method does not run
BaseCall(extra) == IF extra > 0 THEN "TypeError" ELSE "none"

\* self.child.feed(chunk, reporter)
ChildFeed(t, clog, chunk) ==
    IF t.child = "CheckRunner"
    THEN Called(t, clog, "TypeError")
    ELSE Called(t, Append(clog, [op |-> "feed", item |-> chunk]), "none")

\* VersionToPackage.keyfunc, VersionToCategory.keyfunc
keyfunc(cls, pkg) ==
    IF cls = "VersionToPackage" THEN <<pkg.category, pkg.package>> ELSE <<pkg.category>>

\* _Collapse.start(reporter), PackageToCategory.start(reporter)
Collapse_start(t, clog, reporter) ==
    IF ~reporter THEN Called(t, clog, "TypeError")
    ELSE IF BaseCall(1) # "none" THEN Called(t, clog, BaseCall(1))
    ELSE Called([t EXCEPT !.chunk = None, !.key = None], clog, "none")

\* _Collapse.feed(pkg, reporter)
Collapse_feed(t, clog, pkg, reporter) ==
    LET key == keyfunc(t.cls, pkg)
    IN IF ~reporter THEN Called(t, clog, "TypeError")
       ELSE IF t.key = Missing THEN Called(t, clog, "AttributeError")
       ELSE IF t.key = Value(key)
       THEN Called([t EXCEPT !.chunk = Value(Append(t.chunk.val, pkg))], clog, "none")
       ELSE LET r == IF t.chunk # None THEN ChildFeed(t, clog, t.chunk.val)
                     ELSE Called(t, clog, "none")
            IN IF r.exc # "none" THEN r
               ELSE Called([t EXCEPT !.chunk = Value(<<pkg>>), !.key = Value(key)],
                            r.child_log, "none")

\* _Collapse.finish(reporter), PackageToCategory.finish(reporter)
Collapse_finish(t, clog, reporter) ==
    IF ~reporter THEN Called(t, clog, "TypeError")
    ELSE IF t.chunk = Missing THEN Called(t, clog, "AttributeError")
    ELSE LET r == IF t.chunk # None THEN ChildFeed(t, clog, t.chunk.val)
                  ELSE Called(t, clog, "none")
         IN IF r.exc # "none" THEN r
            ELSE IF BaseCall(1) # "none" THEN Called(t, r.child_log, BaseCall(1))
            ELSE Called([t EXCEPT !.chunk = None, !.key = None], r.child_log, "none")

\* PackageToCategory.feed(item, reporter)
PackageToCategory_feed(t, clog, item, reporter) ==
    LET category == <<item[1].category>>
    IN IF ~reporter THEN Called(t, clog, "TypeError")
       ELSE IF t.key = Missing THEN Called(t, clog, "AttributeError")
       ELSE IF t.key = Value(category)
       THEN Called([t EXCEPT !.chunk = Value(t.chunk.val \o item)], clog, "none")
       ELSE LET r == IF t.chunk # None THEN ChildFeed(t, clog, t.chunk.val)
                     ELSE Called(t, clog, "none")
            IN IF r.exc # "none" THEN r
               ELSE Called([t EXCEPT !.chunk = Value(item), !.key = Value(category)],
                            r.child_log, "none")

\* _PackageOrCategoryToRepo.start(reporter)
ToRepo_start(t, clog, reporter) ==
    IF ~reporter THEN Called(t, clog, "TypeError")
    ELSE IF BaseCall(1) # "none" THEN Called(t, clog, BaseCall(1))
    ELSE Called([t EXCEPT !.repo = Value(<<>>)], clog, "none")

\* _PackageOrCategoryToRepo.feed(item, reporter)
ToRepo_feed(t, clog, item, reporter) ==
    IF ~reporter THEN Called(t, clog, "TypeError")
    ELSE IF t.repo = Missing THEN Called(t, clog, "AttributeError")
    ELSE IF t.repo = None THEN Called(t, clog, "AttributeError")
    ELSE Called([t EXCEPT !.repo = Value(Append(t.repo.val, item))], clog, "none")

\* _PackageOrCategoryToRepo.finish(reporter)
ToRepo_finish(t, clog, reporter) ==
    IF ~reporter THEN Called(t, clog, "TypeError")
    ELSE IF t.repo = Missing THEN Called(t, clog, "AttributeError")
    ELSE LET r == ChildFeed(t, clog, t.repo.val)
         IN IF r.exc # "none" THEN r
            ELSE IF BaseCall(1) # "none" THEN Called(t, r.child_log, BaseCall(1))
            ELSE Called([t EXCEPT !.repo = None], r.child_log, "none")

\* the method of the class of t that a call resolves to
Start(t, clog, reporter) ==
    IF t.cls \in RepoClasses THEN ToRepo_start(t, clog, reporter)
    ELSE Collapse_start(t, clog, reporter)

Feed(t, clog, item, reporter) ==
    IF t.cls \in RepoClasses THEN ToRepo_feed(t, clog, item, reporter)
    ELSE IF t.cls = "PackageToCategory" THEN PackageToCategory_feed(t, clog, item, reporter)
    ELSE Collapse_feed(t, clog, item, reporter)

Finish(t, clog, reporter) ==
    IF t.cls \in RepoClasses THEN ToRepo_finish(t, clog, reporter)
    ELSE Collapse_finish(t, clog, reporter)

\* Transform.__init__(child): no attribute of the subclass is assigned yet
InitTransform ==
    /\ input = <<>>
    /\ iters = <<>>
    /\ sources = <<>>
    /\ cache = <<>>
    /\ emitted = <<>>
    /\ stops = 0
    /\ path = "none"
    /\ InitRunners(0)
    /\ pc = "constructed"
    /\ k = 0
    /\ NoPlug
    /\ NoFeed
    /\ xform \in [cls : TransformClasses, child : ChildClasses,
                  chunk : {Missing}, key : {Missing}, repo : {Missing}]
    /\ fed = <<>>
    /\ child_log = <<>>
    /\ tcall = <<>>

\* the call op came out as r
TransformCalled(op, reporter, r) ==
    /\ xform' = r.xform
    /\ child_log' = r.child_log
    /\ tcall' = [op |-> op, reporter |-> reporter, exc |-> r.exc]

\* the driver calls start, with a reporter or, as Pipeline.run does, without
TransformStart ==
    /\ pc = "constructed"
    /\ \E reporter \in BOOLEAN :
          TransformCalled("start", reporter, Start(xform, child_log, reporter))
    /\ pc' = "started"
    /\ UNCHANGED <<fed, k, mergeVars, runnerVars, plugVars, feedVars>>

\* the driver calls feed
TransformFeed ==
    /\ pc = "started"
    /\ Len(fed) < MaxFed
    /\ \E item \in FeedItems(xform.cls), reporter \in BOOLEAN :
          /\ TransformCalled("feed", reporter, Feed(xform, child_log, item, reporter))
          /\ fed' = Append(fed, item)
    /\ UNCHANGED <<pc, k, mergeVars, runnerVars, plugVars, feedVars>>

\* the driver calls finish
TransformFinish ==
    /\ pc = "started"
    /\ \E reporter \in BOOLEAN :
          TransformCalled("finish", reporter, Finish(xform, child_log, reporter))
    /\ pc' = "finished"
    /\ UNCHANGED <<fed, k, mergeVars, runnerVars, plugVars, feedVars>>

NextTransform == TransformStart \/ TransformFeed \/ TransformFinish

SpecTransform == InitTransform /\ [][NextTransform]_vars

----------------------------------------------------------------------------
(* Properties of UnusedFileCheck.feed *)

\* the characters of a version
VersionChars == Digit \cup Lower \cup {".", "_", "-"}

\* digits, possibly none
IsDigits(s) == \A i \in DOMAIN s : s[i] \in Digit

\* numbers separated by single dots
IsNumber(s) ==
    /\ s # <<>>
    /\ s[1] \in Digit
    /\ s[Len(s)] \in Digit
    /\ \A i \in DOMAIN s : s[i] \in Digit \cup {"."}
    /\ \A i \in 1..(Len(s) - 1) : ~(s[i] = "." /\ s[i + 1] = ".")

\* one suffix: _alpha, _beta, _pre, _rc or _p, with or without a number
IsSuffix(s) ==
    \E w \in DOMAIN SuffixWords :
       /\ StartsWith(s, <<"_">> \o SuffixWords[w])
       /\ IsDigits(From(s, Len(SuffixWords[w]) + 2))

\* suffixes, possibly none
RECURSIVE IsSuffixes(_)
IsSuffixes(s) ==
    \/ s = <<>>
    \/ \E n \in 1..Len(s) : IsSuffix(SubSeq(s, 1, n)) /\ IsSuffixes(From(s, n + 1))

\* a revision: -r and a number
IsRevision(s) == StartsWith(s, <<"-", "r">>) /\ Len(s) > 2 /\ IsDigits(From(s, 3))

\* a version: a number, at most one letter, suffixes, at most one revision
IsVersion(s) ==
    /\ \A i \in DOMAIN s : s[i] \in VersionChars
    /\ \E a \in 1..Len(s) :
          /\ IsNumber(SubSeq(s, 1, a))
          /\ \E b \in {a, a + 1} :
                /\ b <= Len(s)
                /\ b = a \/ s[b] \in Lower
                /\ \E c \in b..Len(s) :
                      /\ IsSuffixes(SubSeq(s, b + 1, c))
                      /\ c = Len(s) \/ IsRevision(From(s, c + 1))

\* the length of the longest version a name starts with, 0 if there is none
LeadingVersion(s) ==
    CHOOSE n \in 0..Len(s) :
       /\ n = 0 \/ IsVersion(SubSeq(s, 1, n))
       /\ \A m \in (n + 1)..Len(s) : ~IsVersion(SubSeq(s, 1, m))

\* a name without the package name and the hyphen after it
WithoutPackage(name) ==
    IF StartsWith(name, PackageName \o <<"-">>) THEN From(name, Len(PackageName) + 2)
    ELSE IF StartsWith(name, PackageName) THEN From(name, Len(PackageName) + 1)
    ELSE name

\* every file name without its package-name prefix and its leading version
StrippedNames ==
    [name \in FileNames |->
        From(WithoutPackage(name), LeadingVersion(WithoutPackage(name)) + 1)]

\* the entries of FILESDIR the loop has dealt with
Listed == filesdir.entries \ paths

\* the number of results that carry the name
ResultsFor(name) == Cardinality({r \in DOMAIN yielded : yielded[r].file = name})

\* the file is one feed has to report
Unused(entry) ==
    /\ Len(StrippedNames[entry.name]) >= 16
    /\ \A e \in DOMAIN pkgs : ~Contains(pkgs[e].text, StrippedNames[entry.name])

\* C21: for every regular file of FILESDIR that feed has dealt with, feed
\* has yielded exactly one PotentiallyUnusedFile carrying the file's own
\* name if the name, without the package-name prefix (and the hyphen after
\* it) and without a leading version, has at least 16 characters and is in
\* the text of none of the ebuilds; it has yielded none for the file if the
\* stripped name is shorter or is in the text of an ebuild.
C21_UnusedReported ==
    \A entry \in Listed :
       entry.is_file =>
          ResultsFor(entry.name) = IF Unused(entry) THEN 1 ELSE 0

\* C21 witness: feed has returned one result for a file whose name had a
\* package prefix and a version to strip, with two ebuilds read.
C21_Witness ==
    /\ pc = "fed"
    /\ Len(pkgs) = 2
    /\ \E entry \in filesdir.entries :
          /\ entry.is_file
          /\ Len(StrippedNames[entry.name]) + Len(PackageName) + 2 < Len(entry.name)
          /\ yielded = <<[file |-> entry.name, pkg |-> PackageName]>>

\* C21 witness: a file whose name is long enough only with its prefix and
\* version is not reported.
C21_WitnessShort ==
    /\ pc = "fed"
    /\ \E entry \in filesdir.entries :
          /\ entry.is_file
          /\ Len(entry.name) >= 16
          /\ Len(StrippedNames[entry.name]) < 16
          /\ \A e \in DOMAIN pkgs : ~Contains(pkgs[e].text, entry.name)
    /\ yielded = <<>>

\* C21 witness: a file whose stripped name only the second ebuild holds is
\* not reported.
C21_WitnessUsed ==
    /\ pc = "fed"
    /\ Len(pkgs) = 2
    /\ \E entry \in filesdir.entries :
          /\ entry.is_file
          /\ Len(StrippedNames[entry.name]) >= 16
          /\ ~Contains(pkgs[1].text, StrippedNames[entry.name])
          /\ Contains(pkgs[2].text, StrippedNames[entry.name])
    /\ yielded = <<>>

----------------------------------------------------------------------------
(* Properties of the Pipes of the single-pipeline search *)

\* the dest types of a set of transforms
Dests(trans) == {t.dest : t \in trans}

\* the feed types reached from the types through the transforms
RECURSIVE ReachedThrough(_, _)
ReachedThrough(types, trans) ==
    LET more == types \cup {t.dest : t \in {u \in trans : u.source \in types}}
    IN IF more = types THEN types ELSE ReachedThrough(more, trans)

\* the sum of the costs of the transforms, each counted once
RECURSIVE TransformsCost(_)
TransformsCost(trans) ==
    IF trans = {} THEN 0
    ELSE LET t == CHOOSE u \in trans : TRUE
         IN t.cost + TransformsCost(trans \ {t})

\* the Pipes on the first worklist and the Pipes taken from it
WorklistPipes == (IF pc = "search" THEN unprocessed ELSE {}) \cup pipes

\* the Pipe is a tree of transforms rooted at its source, priced right
WellFormedPipe(pipe) ==
    /\ pipe.visited = {pipe.source.feed_type} \cup Dests(pipe.trans)
    /\ \A t, u \in pipe.trans : t.dest = u.dest => t = u
    /\ pipe.source.feed_type \notin Dests(pipe.trans)
    /\ ReachedThrough({pipe.source.feed_type}, pipe.trans) = pipe.visited
    /\ \A t \in pipe.trans : t.source \in pipe.visited /\ t.scope <= pipe.source.scope
    /\ pipe.cost = pipe.source.cost + TransformsCost(pipe.trans)

\* C22: every Pipe ever placed on the worklist of the single-pipeline search
\* has as visited the feed type of its source plus the dest types of its
\* transforms; these dest types are pairwise distinct and none is the feed
\* type of the source, every visited type is reached from the source's feed
\* type through the transforms (a tree without cycle); every transform's
\* minimum scope is at most the source's scope; and the cost is the source's
\* cost plus the cost of each transform counted once.
C22_PipeInvariant == \A pipe \in WorklistPipes : WellFormedPipe(pipe)

\* C22 witness: the search has extended a Pipe that holds VersionToEbuild
\* and whose source has a filter type no sink asks for, while
\* EbuildToVersion, which would close a cycle, is among the transforms.
C22_Witness ==
    /\ pc = "search"
    /\ EbuildToVersion \in transforms
    /\ \E pipe \in pipes :
          /\ VersionToEbuild \in pipe.trans
          /\ pipe.source.filter_type \notin sink_filter_types
          /\ pipe.cost = pipe.source.cost + VersionToEbuild.cost
          /\ pipe \notin unprocessed

\* C22 witness: a Pipe of two transforms that branch at the source's type
C22_WitnessBranching ==
    /\ pc = "search"
    /\ \E pipe \in pipes : pipe.trans = {VersionToEbuild, VersionToPackage}

----------------------------------------------------------------------------
(* Properties of the trees *)

RECURSIVE ExactTree(_, _, _)

\* every sink of the tree hangs at a node of its own feed type, the node of
\* the tree being of feed_type and a node below a transform being of the
\* transform's dest type, and has the source's filter type and at most the
\* source's scope
ExactTree(tree, feed_type, source) ==
    \A p \in DOMAIN tree.checks :
       LET child == tree.checks[p]
       IN IF child.kind = "sink"
          THEN /\ child.sink.feed_type = feed_type
               /\ child.sink.filter_type = source.filter_type
               /\ child.sink.scope <= source.scope
          ELSE ExactTree(child.child, child.transform.dest, source)

\* C23: in every tree that plug builds and returns, each sink attached at a
\* node has the node's feed type, the filter type of the pipeline's source
\* and a scope at most the scope of the pipeline's source; the node's feed
\* type is the source's feed type at the root and the dest type of the
\* wrapping transform below it.
C23_ExactAttachment ==
    /\ \A p \in DOMAIN result :
          ExactTree(result[p].tree, result[p].source.feed_type, result[p].source)
    /\ \A p \in DOMAIN returned.pipes :
          ExactTree(returned.pipes[p].tree, returned.pipes[p].source.feed_type,
                    returned.pipes[p].source)

\* C23 witness: plug returns a tree with a sink at the root and a sink below
\* a transform.
C23_Witness ==
    /\ pc = "returned"
    /\ \E p \in DOMAIN returned.pipes :
          LET checks_ == returned.pipes[p].tree.checks
          IN /\ \E c \in DOMAIN checks_ : checks_[c].kind = "sink"
             /\ \E c \in DOMAIN checks_ :
                   /\ checks_[c].kind = "transform"
                   /\ \E d \in DOMAIN checks_[c].child.checks :
                         checks_[c].child.checks[d].kind = "sink"

\* C23 witness: plug returns two trees, one for each filter type
C23_WitnessFilters ==
    /\ pc = "returned"
    /\ Len(returned.pipes) = 2
    /\ returned.pipes[1].source.filter_type # returned.pipes[2].source.filter_type

RECURSIVE NonEmptyTree(_)

\* the runner has a child, and every transform below it wraps a runner
\* that has a child and holds a sink
NonEmptyTree(tree) ==
    /\ tree.checks # <<>>
    /\ \A p \in DOMAIN tree.checks :
          tree.checks[p].kind = "transform" =>
             /\ NonEmptyTree(tree.checks[p].child)
             /\ TreeSinks(tree.checks[p].child) # <<>>

\* C24: in every pipeline that plug builds and returns, every CheckRunner
\* has at least one child, every transform wraps a non-empty subtree that
\* holds at least one sink, and the tree of the pipeline itself holds a
\* sink: a chosen (source, transforms) pair whose tree would hold no sink is
\* not in the result.
C24_NoEmptyNodes ==
    /\ \A p \in DOMAIN result :
          NonEmptyTree(result[p].tree) /\ TreeSinks(result[p].tree) # <<>>
    /\ \A p \in DOMAIN returned.pipes :
          NonEmptyTree(returned.pipes[p].tree) /\ TreeSinks(returned.pipes[p].tree) # <<>>
    /\ pc = "build" => Len(result) <= k - 1

\* C24 witness: plug returns a tree with one transform for a pipe of two
\* transforms; the other transform would have wrapped an empty subtree.
C24_Witness ==
    /\ pc = "returned"
    /\ \E p \in DOMAIN pipes_to_run :
          /\ Cardinality(pipes_to_run[p].trans) = 2
          /\ \E q \in DOMAIN returned.pipes :
                /\ returned.pipes[q].source = pipes_to_run[p].source
                /\ Cardinality({c \in DOMAIN returned.pipes[q].tree.checks :
                                  returned.pipes[q].tree.checks[c].kind = "transform"}) = 1

\* C24 witness: a pipe to run was built, its tree held no sink, and it is
\* not in the result.
C24_WitnessLeftOut ==
    /\ pc = "build"
    /\ k > 1
    /\ Len(result) < k - 1

----------------------------------------------------------------------------
(* Properties of the searches *)

\* both searches are over
SearchesEnded == pc \in {"sort", "build", "returned", "sinks left", "did not find a solution?"}

\* C25: whenever a sink survives the removal of the bad sinks, the
\* single-pipeline search or, failing that, the combination search ends with
\* a non-empty list of pipes to run, and the assertion 'did not find a
\* solution?' does not fail.
C25_SolutionFound ==
    /\ pc # "did not find a solution?"
    /\ (SearchesEnded /\ source_map # <<>>) => pipes_to_run # <<>>

\* C25 witness: no single Pipe reaches every sink feed type, and the
\* combination search ends with two pipes to run.
C25_Witness ==
    /\ pc = "sort"
    /\ done # {}
    /\ Len(pipes_to_run) = 2
    /\ \A pipe \in pipes : ~(sink_feed_types \subseteq pipe.visited)

\* C25 witness: the single-pipeline search ends with a pipe to run
C25_WitnessSingle ==
    /\ pc = "sort"
    /\ done = {}
    /\ pipes_to_run # <<>>
    /\ \E p \in DOMAIN pipes_to_run : pipes_to_run[p].trans # {}

\* the combinations on the second worklist and those taken from it
Combinations == (IF pc = "combine" THEN unprocessed ELSE {}) \cup done

\* the feed types the members of a sequence of (source, transforms) pairs
\* visit
SeqVisited(seq) ==
    UNION {{seq[p].source.feed_type} \cup Dests(seq[p].trans) : p \in DOMAIN seq}

\* the sum of the costs of the members
RECURSIVE SeqCost(_)
SeqCost(seq) ==
    IF seq = <<>> THEN 0
    ELSE Head(seq).source.cost + TransformsCost(Head(seq).trans) + SeqCost(Tail(seq))

\* the combination is made of Pipes of the first search, one a source
WellFormedCombination(comb) ==
    /\ comb.seq # <<>>
    /\ \A p, q \in DOMAIN comb.seq : comb.seq[p].source = comb.seq[q].source => p = q
    /\ comb.sources = {comb.seq[p].source : p \in DOMAIN comb.seq}
    /\ \A p \in DOMAIN comb.seq :
          \E pipe \in pipes : pipe.source = comb.seq[p].source /\ pipe.trans = comb.seq[p].trans
    /\ comb.visited = SeqVisited(comb.seq)
    /\ comb.cost = SeqCost(comb.seq)

\* the single-pipeline search recorded no Pipe
NothingRecorded == \A f \in DOMAIN required_filters_costs : required_filters_costs[f] = NoCost

\* C26: the combination search is entered only when the single-pipeline
\* search recorded no Pipe; every combination it explores holds each source
\* in at most one (source, transforms) pair, its visited is the union of the
\* visited sets of its members and its cost the sum of their costs; and the
\* pipes to run it leaves are the members of one such combination.
C26_SourcesOnce ==
    /\ (pc = "combine" \/ done # {}) => NothingRecorded
    /\ \A comb \in Combinations : WellFormedCombination(comb)
    /\ (done # {} /\ pipes_to_run # <<>>) =>
          \E comb \in done : comb.seq = pipes_to_run /\ comb.cost = best_cost

\* C26 witness: the combination search has taken a combination of two
\* sources from its worklist and recorded it.
C26_Witness ==
    /\ pc = "combine"
    /\ \E comb \in done :
          /\ Len(comb.seq) = 2
          /\ comb.seq = pipes_to_run
          /\ \E p \in DOMAIN comb.seq : comb.seq[p].trans # {}

\* C26 witness: the single-pipeline search recorded a Pipe and the
\* combination search is passed over.
C26_WitnessPassedOver ==
    /\ pc = "sort"
    /\ ~NothingRecorded
    /\ done = {}
    /\ Cardinality(pipes) > 1

\* the sum of the costs of a set of Pipes
RECURSIVE PipesCost(_)
PipesCost(S) ==
    IF S = {} THEN 0
    ELSE LET pipe == CHOOSE q \in S : TRUE
         IN pipe.cost + PipesCost(S \ {pipe})

\* the sets of explored Pipes with pairwise distinct sources that together
\* visit every feed type of the good sinks
CoveringChoices ==
    {S \in SUBSET pipes :
       /\ S # {}
       /\ \A a, b \in S : a.source = b.source => a = b
       /\ sink_feed_types \subseteq UNION {pipe.visited : pipe \in S}}

\* the combination search has emptied its worklist and the sinks are not
\* yet sorted
CombineEnded == (pc = "combine" /\ unprocessed = {}) \/ (pc = "sort" /\ done # {})

\* C27: when the combination search has ended, the cost of the combination
\* it leaves as the pipes to run is the lowest total cost among all sets of
\* explored Pipes with pairwise distinct sources whose visited sets together
\* cover every feed type of the surviving sinks, whatever the order in which
\* the worklist was popped.
C27_CheapestCombination ==
    CombineEnded =>
       /\ CoveringChoices # {}
       /\ best_cost = Lowest({PipesCost(S) : S \in CoveringChoices})
       /\ SeqCost(pipes_to_run) = best_cost
       /\ sink_feed_types \subseteq SeqVisited(pipes_to_run)

\* C27 witness: the combination search took a covering combination from the
\* worklist before a cheaper one, and ends with the cheaper one.
C27_Witness ==
    /\ CombineEnded
    /\ \E comb \in done :
          /\ sink_feed_types \subseteq comb.visited
          /\ comb.cost > best_cost
          /\ Combined(comb) # {}
          /\ \A more \in Combined(comb) : more \notin done

----------------------------------------------------------------------------
(* Properties of the sources kept for the searches *)

\* C28: once the sources are pruned and the cheapest of each kind is
\* chosen, for every sink that survived the removal of the bad sinks some
\* retained source has at least the sink's scope and reaches the sink's feed
\* type through transforms allowed at the source's scope; the retained
\* sources are not empty, and plug does not return surviving sinks as bad.
C28_NoSinkStranded ==
    /\ pc = "search" =>
          /\ Retained # {}
          /\ \A p \in DOMAIN good_sinks :
                \E source \in Retained :
                   /\ source.scope >= good_sinks[p].scope
                   /\ good_sinks[p].feed_type \in Closure({source.feed_type}, source)
    /\ pc = "returned" => good_sinks = <<>>

\* C28 witness: a source below the lowest required scope was dropped and
\* a sink survives.
C28_Witness ==
    /\ pc = "search"
    /\ good_sinks # <<>>
    /\ Len(Pruned) < Len(plug_sources)
    /\ Retained # {}

\* C28 witness: of two sources of the same scope, feed type and filter type
\* and of different cost one is retained, and a sink of another feed type
\* survives.
C28_WitnessChosen ==
    /\ pc = "search"
    /\ Len(Pruned) = 2
    /\ Pruned[1].cost # Pruned[2].cost
    /\ Cardinality(Retained) = 1
    /\ \E p \in DOMAIN good_sinks : good_sinks[p].feed_type = package_feed

----------------------------------------------------------------------------
(* Properties of the buffer of InterleavedSources *)

\* the pipe indices of the alive sources and of the buffered items
Alive == {sources[p] : p \in DOMAIN sources}

Buffered == {cache[p].idx : p \in DOMAIN cache}

\* C29: between two advances the buffer holds at most one item for a pipe
\* index and holds items only for sources of the alive list, and an advance
\* drops a source from the alive list only if the source has no buffered
\* item, before the advance and after it.
C29_BufferInvariant ==
    /\ [](/\ \A p, q \in DOMAIN cache : cache[p].idx = cache[q].idx => p = q
          /\ Buffered \subseteq Alive)
    /\ [][\A i \in Alive :
            i \notin {sources'[p] : p \in DOMAIN sources'} =>
               /\ i \notin Buffered
               /\ i \notin {cache'[p].idx : p \in DOMAIN cache'}]_vars

\* C29 witness: a source is dropped, two sources are alive and one of them
\* has an item in the buffer.
C29_Witness ==
    /\ Len(sources) = 2
    /\ Len(input) = 3
    /\ Cardinality(Buffered) = 1
    /\ emitted # <<>>

\* C30: whenever one source or none is in the alive list the buffer is
\* empty: the single-source path returns the source's next item with no item
\* buffered, and no buffered item is overtaken or left behind when the alive
\* sources go from several to one.
C30_FastPathEmptyBuffer == Len(sources) <= 1 => cache = <<>>

\* C30 witness: the alive sources went from several to one, and the last
\* advance returned an item of the one source on the single-source path.
C30_Witness ==
    /\ Len(input) >= 2
    /\ Len(sources) = 1
    /\ path = "single"
    /\ stops = 0
    /\ Len(emitted) >= 3
    /\ emitted[Len(emitted)].idx = sources[1]
    /\ \E p \in DOMAIN emitted : emitted[p].idx # sources[1]

\* the sort key as stated: the item itself if it is a scalar, its first
\* element if it is a batch
StatedKey(item) == IF item.kind = "scalar" THEN item.val ELSE item.elems[1]

\* C31: an advance that finds several alive sources first pulls an item for
\* every alive source that has none buffered; unless no item is buffered
\* then, it emits a buffered item whose sort key is smallest among all
\* buffered items and removes only that item from the buffer; the sort key
\* is the item itself for a scalar and the first element for a batch, be the
\* batch a list or a tuple.
C31_SelectionKey ==
    [][Len(sources) > 1 =>
         IF cache' = <<>> /\ emitted' = emitted
         THEN sources' = <<>> /\ cache = <<>>
         ELSE /\ Len(emitted') = Len(emitted) + 1
              /\ LET e == emitted'[Len(emitted')]
                     left == {cache'[p] : p \in DOMAIN cache'}
                 IN /\ {b.idx : b \in left} \cup {e.idx} = {sources'[p] : p \in DOMAIN sources'}
                    /\ \A b \in left : b.idx # e.idx /\ StatedKey(e.item) <= StatedKey(b.item)
                    /\ \A p \in DOMAIN cache : cache[p] \in left \cup {e}]_vars

----------------------------------------------------------------------------
(* C32: the dedup state is private to a runner *)

\* C32: the set of seen (entity, message) pairs of a runner changes only in
\* a start or feed call of that runner; a metadata error raised in several
\* runners has been reported once by each of them, whichever runner met it
\* first.
C32_PrivateDedup ==
    /\ [](\A i \in DOMAIN raised : \A key \in raised[i] :
             /\ key \in metadata_errors[i]
             /\ reported[i][key] = 1)
    /\ [][\A j \in DOMAIN metadata_errors :
             metadata_errors'[j] # metadata_errors[j] =>
                 /\ last'.runner = j
                 /\ last'.op \in {"start", "feed"}
                 /\ log'[j] = Append(log[j], [op |-> last'.op, item |-> last'.item])]_vars

\* C32 witness: the second of two runners has just reported a metadata
\* error the first had reported before, in a call that left the set of the
\* first as it was.
C32_Witness ==
    /\ Len(metadata_errors) = 2
    /\ last.runner = 2
    /\ \E key \in MetaKeys :
          /\ key \in raised[1] \cap raised[2]
          /\ key \in metadata_errors[1]
          /\ key \notin last.before
          /\ reported[1][key] = 1
          /\ reported[2][key] = 1

----------------------------------------------------------------------------
(* Properties of the transforms of feeds *)

\* the chunks the child was fed, in order
Forwarded(clog) ==
    LET feeds == SelectSeq(clog, LAMBDA c : c.op = "feed")
    IN [p \in DOMAIN feeds |-> feeds[p].item]

\* the chunks one after the other
RECURSIVE Flat(_)
Flat(chunks) == IF chunks = <<>> THEN <<>> ELSE Head(chunks) \o Flat(Tail(chunks))

\* C33: once start, feed(x1) ... feed(xn), finish were called on a
\* collapsing transform, the chunks forwarded to the child, one after the
\* other, are x1 ... xn; no chunk is empty, the items of a chunk have the
\* same key, and two consecutive chunks differ in their key (so that with
\* n = 0 nothing is forwarded).
C33_CollapsePreserves ==
    (pc = "finished" /\ xform.cls \in CollapseClasses) =>
        LET chunks == Forwarded(child_log)
        IN /\ Flat(chunks) = fed
           /\ \A p \in DOMAIN chunks :
                 /\ chunks[p] # <<>>
                 /\ \A a \in DOMAIN chunks[p] :
                       keyfunc(xform.cls, chunks[p][a]) = keyfunc(xform.cls, chunks[p][1])
           /\ \A p \in 1..(Len(chunks) - 1) :
                 keyfunc(xform.cls, chunks[p][1]) # keyfunc(xform.cls, chunks[p + 1][1])

\* the items fed to the transform as they are to appear in the chunks
Units == IF xform.cls = "PackageToCategory" THEN Flat(fed) ELSE fed

\* C34: when the child's finish is invoked, every item fed to the buffering
\* transform has been forwarded to the child inside some chunk, and nothing
\* is forwarded afterwards; after its finish a repository-level transform
\* has forwarded exactly one batch, holding all fed items in feed order.
C34_FlushBeforeFinish ==
    /\ \A p \in DOMAIN child_log :
          child_log[p].op = "finish" =>
              /\ Flat(Forwarded(SubSeq(child_log, 1, p))) = Units
              /\ \A q \in DOMAIN child_log : q > p => child_log[q].op # "feed"
    /\ (pc = "finished" /\ xform.cls \in RepoClasses) =>
           Forwarded(child_log) = <<fed>>

====
